---- MODULE Spec2Model ----
(***************************************************************************)
(* Komac installer analysis: the extension router (Analyzer::new), the    *)
(* executable probe chain (Exe::new), the Advanced Installer probe, the   *)
(* PE icon reconstruction and the NSIS System plugin interpreter with its *)
(* per-thread scratch state.                                              *)
(*                                                                        *)
(* Text is modelled by TLA+ strings, file contents by sequences of bytes  *)
(* (0..255).  One analysis runs at a time; the thread-local statics of    *)
(* the plugin interpreter outlive an analysis, everything else is built   *)
(* anew by Analyzer::new.                                                 *)
(***************************************************************************)
EXTENDS Integers, Sequences, FiniteSets, TLC

(***************************************************************************)
(* Text helpers (Rust str methods used by the code).                      *)
(***************************************************************************)
Ch(s, i) == SubSeq(s, i, i)

UPPER == "ABCDEFGHIJKLMNOPQRSTUVWXYZ"
LOWER == "abcdefghijklmnopqrstuvwxyz"
DIGITS == "0123456789"

\* 1-based index of the one-character string c in s, 0 when absent
RECURSIVE IndexFrom(_, _, _)
IndexFrom(s, c, i) ==
    IF i > Len(s) THEN 0
    ELSE IF Ch(s, i) = c THEN i
    ELSE IndexFrom(s, c, i + 1)

IndexOf(s, c) == IndexFrom(s, c, 1)

IsUpper(c) == IndexOf(UPPER, c) > 0
IsLower(c) == IndexOf(LOWER, c) > 0
IsDigit(c) == IndexOf(DIGITS, c) > 0
IsAlpha(c) == IsUpper(c) \/ IsLower(c)

\* char::to_ascii_lowercase
LowerCh(c) == IF IsUpper(c) THEN Ch(LOWER, IndexOf(UPPER, c)) ELSE c

\* least and greatest member of a non-empty set of indices
MinOf(S) == CHOOSE i \in S : \A j \in S : i <= j
MaxOf(S) == CHOOSE i \in S : \A j \in S : j <= i

\* str::to_ascii_lowercase: every character mapped, halves joined
RECURSIVE to_ascii_lowercase(_)
to_ascii_lowercase(s) ==
    IF Len(s) = 0 THEN ""
    ELSE IF Len(s) = 1 THEN LowerCh(s)
    ELSE to_ascii_lowercase(SubSeq(s, 1, Len(s) \div 2))
         \o to_ascii_lowercase(SubSeq(s, Len(s) \div 2 + 1, Len(s)))

\* str::starts_with / ends_with
starts_with(s, p) == Len(p) <= Len(s) /\ SubSeq(s, 1, Len(p)) = p
ends_with(s, p) ==
    Len(p) <= Len(s) /\ SubSeq(s, Len(s) - Len(p) + 1, Len(s)) = p

\* str::find: 1-based start of the first occurrence of p in s, 0 when absent
FindFrom(s, p, i) ==
    LET hits == {j \in i..(Len(s) - Len(p) + 1) :
                    SubSeq(s, j, j + Len(p) - 1) = p}
    IN  IF hits = {} THEN 0 ELSE MinOf(hits)

find(s, p) == FindFrom(s, p, 1)

\* str::rfind for a one-character pattern: 1-based, 0 when absent
RFindFrom(s, c, i) ==
    LET hits == {j \in 1..i : Ch(s, j) = c}
    IN  IF hits = {} THEN 0 ELSE MaxOf(hits)

rfind(s, c) == RFindFrom(s, c, Len(s))

\* str::contains
contains(s, p) == find(s, p) > 0

\* maps (HashMap and the register file): functions on a finite key set
EmptyMap == [k \in {} |-> ""]
MapPut(m, k, v) == [x \in DOMAIN m \cup {k} |-> IF x = k THEN v ELSE m[x]]

(***************************************************************************)
(* Byte helpers.                                                          *)
(***************************************************************************)
Zeros(n) == [i \in 1..n |-> 0]
Fill(n) == [i \in 1..n |-> 144]

\* little-endian encoding of a 32-bit value (two's complement)
LE32(n) ==
    LET u == IF n < 0 THEN (n + 2147483647) + 1 ELSE n
    IN  << u % 256, (u \div 256) % 256, (u \div 65536) % 256,
           (u \div 16777216) + (IF n < 0 THEN 128 ELSE 0) >>

\* ReadBytesExt::read_i32::<LittleEndian> of the four bytes at offset off
I32At(data, off) ==
    LET low == data[off + 1] + 256 * data[off + 2] + 65536 * data[off + 3]
        hi == data[off + 4]
    IN  low + 16777216 * (IF hi >= 128 THEN hi - 256 ELSE hi)

\* u16::from_le_bytes of the two bytes at offset off
U16At(data, off) == data[off + 1] + 256 * data[off + 2]

\* slice::get(start..end): <<TRUE, bytes>> or <<FALSE, <<>>>>
SliceGet(data, start, end) ==
    IF start <= end /\ end <= Len(data)
    THEN <<TRUE, SubSeq(data, start + 1, end)>>
    ELSE <<FALSE, <<>>>>

(***************************************************************************)
(* std::io::Cursor over the mapped file: seek never fails, read_exact     *)
(* fails with UnexpectedEof when fewer than n bytes remain and then       *)
(* leaves the cursor at the end of the data.                              *)
(***************************************************************************)
SeekStart(off) == off
SeekCurrent(pos, d) == pos + d
SeekEnd(data, d) == Len(data) + d

CanRead(data, pos, n) == pos <= Len(data) /\ n <= Len(data) - pos
ReadBytes(data, pos, n) == SubSeq(data, pos + 1, pos + n)

(***************************************************************************)
(* Advanced Installer probe (advanced.rs).                                *)
(***************************************************************************)
\* b"ADVINSTSFX\0"
ADVINST_MAGIC == <<65, 68, 86, 73, 78, 83, 84, 83, 70, 88, 0>>
\* width of the window searched before EOF or the certificate table
SEARCH_WINDOW == 18
\* distance from the magic back to the footer
FOOTER_BACK == 60
\* number of leading bytes inverted when encoding_flag is 2
XOR_PREFIX == 512

\* File names of the container are kept as UTF-16 code units
EXT_INI == <<46, 105, 110, 105>>
EXT_7Z == <<46, 55, 122>>
EXT_MSI == <<46, 109, 115, 105>>

\* UTF_16LE.decode(name_bytes): one code unit per two bytes
RECURSIVE Utf16Decode(_)
Utf16Decode(b) ==
    IF Len(b) < 2 THEN <<>>
    ELSE <<b[1] + 256 * b[2]>> \o Utf16Decode(SubSeq(b, 3, Len(b)))

\* str::trim_matches('\0')
RECURSIVE TrimNulLeft(_)
TrimNulLeft(u) ==
    IF u # <<>> /\ u[1] = 0 THEN TrimNulLeft(Tail(u)) ELSE u

RECURSIVE TrimNulRight(_)
TrimNulRight(u) ==
    IF u # <<>> /\ u[Len(u)] = 0 THEN TrimNulRight(SubSeq(u, 1, Len(u) - 1))
    ELSE u

TrimNul(u) == TrimNulRight(TrimNulLeft(u))

\* to_ascii_lowercase on code units
LowerUnits(u) ==
    [i \in 1..Len(u) |-> IF u[i] >= 65 /\ u[i] <= 90 THEN u[i] + 32 ELSE u[i]]

NameEndsWith(f, ext) == ends_with(LowerUnits(f.name), ext)

\* slice::windows(11).rposition(|w| w == magic): 0-based, -1 when none
RECURSIVE MagicRPos(_, _)
MagicRPos(buf, i) ==
    IF i < 0 THEN -1
    ELSE IF SubSeq(buf, i + 1, i + Len(ADVINST_MAGIC)) = ADVINST_MAGIC THEN i
    ELSE MagicRPos(buf, i - 1)

\* File::read: <<ok, bytes, cursor afterwards>>
FileRead(data, f) ==
    LET p == SeekStart(f.offset)
        raw == ReadBytes(data, p, f.size)
    IN  IF ~CanRead(data, p, f.size) THEN <<FALSE, <<>>, Len(data)>>
        ELSE << TRUE,
                IF f.encoding_flag = 2
                THEN [i \in 1..Len(raw) |->
                         IF i <= XOR_PREFIX THEN 255 - raw[i] ELSE raw[i]]
                ELSE raw,
                p + f.size >>

\* An offset or length of 2^31 or more: past the end of every file of the
\* model (the exact value never matters, only that no read there succeeds)
OUT_OF_RANGE == 2147483647

\* `as u32` / `as u64` / `as usize` of a value read as i32: a negative value
\* becomes a huge unsigned one
AsUnsigned(n) == IF n < 0 THEN OUT_OF_RANGE ELSE n

\* The loop reading num_files table entries, starting with the cursor at
\* pos.  Result: [res |-> "Ok" | "Io" | "Panic", pos, files]
RECURSIVE ParseEntries(_, _, _, _)
ParseEntries(data, pos, k, acc) ==
    IF k <= 0 THEN [res |-> "Ok", pos |-> pos, files |-> acc]
    ELSE
    LET p1 == SeekCurrent(pos, 8)
    IN  IF ~CanRead(data, p1, 16)
        THEN [res |-> "Io", pos |-> Len(data), files |-> acc]
        ELSE
        LET encoding_flag == AsUnsigned(I32At(data, p1))
            size == AsUnsigned(I32At(data, p1 + 4))
            offset == AsUnsigned(I32At(data, p1 + 8))
            name_chars == I32At(data, p1 + 12)
            p2 == p1 + 16
        IN  IF name_chars < 0
            THEN [res |-> "Panic", pos |-> p2, files |-> acc]
            ELSE IF name_chars > Len(data) \/ ~CanRead(data, p2, name_chars * 2)
            THEN [res |-> "Io", pos |-> Len(data), files |-> acc]
            ELSE ParseEntries(data, p2 + name_chars * 2, k - 1,
                     Append(acc,
                         [name |-> TrimNul(Utf16Decode(
                                       ReadBytes(data, p2, name_chars * 2))),
                          size |-> size, offset |-> offset,
                          encoding_flag |-> encoding_flag]))

\* iter().rev().find(pred): index of the last file satisfying pred, 0 if none
LastIndex(files, ext) ==
    LET S == {i \in 1..Len(files) : NameEndsWith(files[i], ext)}
    IN  IF S = {} THEN 0 ELSE CHOOSE i \in S : \A j \in S : j <= i

(***************************************************************************)
(* Payload parsers used by the Advanced Installer probe.  Msi::new and    *)
(* the 7z reader are not part of the probe: an MSI payload is one that    *)
(* starts with the compound-file signature, a 7z archive is its signature *)
(* followed by a count and length-prefixed entries.                       *)
(***************************************************************************)
CFB_SIGNATURE == <<208, 207, 17, 224, 161, 177, 26, 225>>
SEVENZ_SIGNATURE == <<55, 122, 188, 175, 39, 28>>

\* Msi::new(Cursor::new(bytes)).is_ok()
MsiNewOk(bytes) == starts_with(bytes, CFB_SIGNATURE)

\* entries of a 7z archive body: [ok, entries]
RECURSIVE SevenZBody(_, _, _)
SevenZBody(b, k, acc) ==
    IF k = 0 THEN [ok |-> TRUE, entries |-> acc]
    ELSE IF b = <<>> \/ Len(b) < 1 + b[1] THEN [ok |-> FALSE, entries |-> acc]
    ELSE SevenZBody(SubSeq(b, 2 + b[1], Len(b)), k - 1,
                    Append(acc, SubSeq(b, 2, 1 + b[1])))

\* ArchiveReader::new(..).ok()?.for_each_entries(..).ok()?
SevenZEntries(bytes) ==
    IF ~starts_with(bytes, SEVENZ_SIGNATURE) \/ Len(bytes) < 7
    THEN [ok |-> FALSE, entries |-> <<>>]
    ELSE SevenZBody(SubSeq(bytes, 8, Len(bytes)), bytes[7], <<>>)

\* filter of a sequence by a predicate on its elements
RECURSIVE SelectMsi(_)
SelectMsi(payloads) ==
    IF payloads = <<>> THEN <<>>
    ELSE (IF MsiNewOk(Head(payloads)) THEN <<Head(payloads)>> ELSE <<>>)
         \o SelectMsi(Tail(payloads))

\* files.iter().filter(.msi).filter_map(read).filter_map(Msi::new):
\* [pos, msis], reading the loose .msi entries in table order
RECURSIVE LooseMsis(_, _, _, _, _)
LooseMsis(data, files, i, pos, acc) ==
    IF i > Len(files) THEN [pos |-> pos, msis |-> acc]
    ELSE IF ~NameEndsWith(files[i], EXT_MSI)
    THEN LooseMsis(data, files, i + 1, pos, acc)
    ELSE LET r == FileRead(data, files[i])
         IN  LooseMsis(data, files, i + 1, r[3],
                 IF r[1] /\ MsiNewOk(r[2]) THEN Append(acc, r[2]) ELSE acc)

\* The part of AdvancedInstaller::new that follows the file table
\* (advanced.rs 78-126): the optional .ini read, the .7z archive or the
\* loose .msi entries, and the decline when no MSI was found.
AdvancedPayloads(data, files, pos) ==
    LET ini == LastIndex(files, EXT_INI)
        posIni == IF ini = 0 THEN pos ELSE FileRead(data, files[ini])[3]
        arc == LastIndex(files, EXT_7Z)
        arcRead == IF arc = 0 THEN <<FALSE, <<>>, posIni>>
                   ELSE FileRead(data, files[arc])
        arcEntries == IF arcRead[1] THEN SevenZEntries(arcRead[2])
                      ELSE [ok |-> FALSE, entries |-> <<>>]
        arcMsis == IF arcEntries.ok THEN SelectMsi(arcEntries.entries) ELSE <<>>
        loose == LooseMsis(data, files, 1, arcRead[3], <<>>)
        installers == IF arcMsis # <<>> THEN arcMsis ELSE loose.msis
        posEnd == IF arcMsis # <<>> THEN arcRead[3] ELSE loose.pos
    IN  IF installers = <<>>
        THEN [res |-> "NotAdvancedInstallerFile", pos |-> posEnd, msis |-> <<>>]
        ELSE [res |-> "Ok", pos |-> posEnd, msis |-> installers]

\* The part that follows the magic (advanced.rs 52-76): footer, file table.
\* magic_abs is the absolute offset of the magic.  In a debug build the
\* subtraction below zero panics, in a release build it wraps to an offset
\* past the end, where the next read fails.
AdvancedFooter(data, magic_abs, build) ==
    IF magic_abs < FOOTER_BACK
    THEN [res |-> IF build = "debug" THEN "Panic" ELSE "Io",
          pos |-> Len(data), msis |-> <<>>]
    ELSE
    LET footer_offset == magic_abs - FOOTER_BACK
        p1 == SeekStart(footer_offset + 4)
        num_files == I32At(data, p1)
        p2 == SeekCurrent(p1 + 4, 8)
        files_offset == I32At(data, p2)
        p3 == SeekStart(AsUnsigned(files_offset))
    IN  IF num_files < 0
        THEN [res |-> "Panic", pos |-> p3, msis |-> <<>>]
        ELSE LET t == ParseEntries(data, p3, num_files, <<>>)
             IN  IF t.res # "Ok"
                 THEN [res |-> t.res, pos |-> t.pos, msis |-> <<>>]
                 ELSE AdvancedPayloads(data, t.files, t.pos)

\* variant: the search window is reached by a seek relative to the cursor
SeekToWindow_Relative(pos, search_start) == SeekCurrent(pos, search_start)

\* The seek that positions the reader on the search window (advanced.rs 44)
SeekToWindow(pos, search_start) == SeekStart(search_start)

\* AdvancedInstaller::new, entered with the reader at pos0.  dd4 is the
\* virtual address of data directory 4 (the certificate table), -1 when the
\* PE has fewer than five data directories.
\* Result: [res |-> "Ok" | "NotAdvancedInstallerFile" | "Io" | "Panic",
\*          pos |-> cursor afterwards, msis |-> the MSI payloads]
AdvancedInstaller_new(data, dd4, pos0, build) ==
    LET useDir == dd4 > 0
        end_offset == IF useDir THEN dd4 ELSE SeekEnd(data, 0)
        search_start == IF end_offset >= SEARCH_WINDOW
                        THEN end_offset - SEARCH_WINDOW ELSE 0
        pB == SeekToWindow(IF useDir THEN pos0 ELSE end_offset, search_start)
        n == end_offset - search_start
    IN  IF ~CanRead(data, pB, n)
        THEN [res |-> "Io", pos |-> Len(data), msis |-> <<>>]
        ELSE
        LET buf == ReadBytes(data, pB, n)
            magic_pos == MagicRPos(buf, Len(buf) - Len(ADVINST_MAGIC))
        IN  IF magic_pos < 0
            THEN [res |-> "NotAdvancedInstallerFile", pos |-> pB + n,
                  msis |-> <<>>]
            ELSE AdvancedFooter(data, search_start + magic_pos, build)

(***************************************************************************)
(* PE icon reconstruction (icons.rs).  A resource is a record             *)
(* [type, id, offset, length]; an icon asset is the byte string of the    *)
(* rebuilt .ico file (icon_from_data wraps it in a data: URL).            *)
(***************************************************************************)
RESOURCE_TYPE_ICON == 3
RESOURCE_TYPE_GROUP_ICON == 14
GROUP_HEADER_LEN == 6
GROUP_ENTRY_LEN == 14
ICO_ENTRY_LEN == 16

U16LE(n) == << n % 256, (n \div 256) % 256 >>

\* bytes of a resource, when its range lies inside the file
ResourceBytes(r, data) == SliceGet(data, r.offset, r.offset + r.length)

\* icon_resources: HashMap<u32, &[u8]> collected in resource order, so a
\* later resource with the same id replaces an earlier one
IconResources(resources, data) ==
    LET valid == {i \in 1..Len(resources) :
                     /\ resources[i].type = RESOURCE_TYPE_ICON
                     /\ resources[i].offset # 0
                     /\ ResourceBytes(resources[i], data)[1]}
        ids == {resources[i].id : i \in valid}
        last(id) == CHOOSE i \in valid :
                        /\ resources[i].id = id
                        /\ \A j \in valid : resources[j].id = id => j <= i
    IN  [id \in ids |-> ResourceBytes(resources[last(id)], data)[2]]

\* variant: the first entry that does not resolve ends the group
RECURSIVE GroupEntries_StopAtUnresolved(_, _, _, _)
GroupEntries_StopAtUnresolved(group, icons, i, count) ==
    IF i >= count THEN <<>>
    ELSE LET e == SliceGet(group, GROUP_HEADER_LEN + i * GROUP_ENTRY_LEN,
                           GROUP_HEADER_LEN + i * GROUP_ENTRY_LEN
                               + GROUP_ENTRY_LEN)
         IN  IF e[1] /\ U16At(e[2], 12) \in DOMAIN icons
             THEN << <<e[2], icons[U16At(e[2], 12)]>> >>
                  \o GroupEntries_StopAtUnresolved(group, icons, i + 1, count)
             ELSE <<>>

\* the (entry, icon_data) pairs of a group whose member id resolves
RECURSIVE GroupEntries(_, _, _, _)
GroupEntries(group, icons, i, count) ==
    IF i >= count THEN <<>>
    ELSE LET e == SliceGet(group, GROUP_HEADER_LEN + i * GROUP_ENTRY_LEN,
                           GROUP_HEADER_LEN + i * GROUP_ENTRY_LEN
                               + GROUP_ENTRY_LEN)
             id == U16At(e[2], 12)
         IN  (IF e[1] /\ id \in DOMAIN icons
              THEN << <<e[2], icons[id]>> >> ELSE <<>>)
             \o GroupEntries(group, icons, i + 1, count)

RECURSIVE SumLen(_, _)
SumLen(entries, k) ==
    IF k = 0 THEN 0 ELSE Len(entries[k][2]) + SumLen(entries, k - 1)

\* variant: the fourth byte of the group entry is copied, not zeroed
RECURSIVE IcoDirectory_KeepsReserved(_, _, _)
IcoDirectory_KeepsReserved(entries, i, data_offset) ==
    IF i > Len(entries) THEN <<>>
    ELSE SubSeq(entries[i][1], 1, 8)
         \o LE32(Len(entries[i][2])) \o LE32(data_offset)
         \o IcoDirectory_KeepsReserved(entries, i + 1,
                                       data_offset + Len(entries[i][2]))

RECURSIVE IcoDirectory(_, _, _)
IcoDirectory(entries, i, data_offset) ==
    IF i > Len(entries) THEN <<>>
    ELSE LET entry == entries[i][1]
             icon_data == entries[i][2]
         IN  <<entry[1], entry[2], entry[3], 0>> \o SubSeq(entry, 5, 8)
             \o LE32(Len(icon_data)) \o LE32(data_offset)
             \o IcoDirectory(entries, i + 1, data_offset + Len(icon_data))

RECURSIVE IcoPayload(_, _)
IcoPayload(entries, i) ==
    IF i > Len(entries) THEN <<>>
    ELSE entries[i][2] \o IcoPayload(entries, i + 1)

\* the closure applied to one group resource: <<emitted, ico_file>>
GroupIcon(r, icons, data) ==
    LET g == ResourceBytes(r, data)
        group == g[2]
    IN  IF ~g[1] \/ Len(group) < GROUP_HEADER_LEN THEN <<FALSE, <<>>>>
        ELSE LET icon_count == U16At(group, 4)
                 entries == GroupEntries(group, icons, 0, icon_count)
             IN  IF entries = <<>> THEN <<FALSE, <<>>>>
                 ELSE << TRUE,
                         SubSeq(group, 1, 4) \o U16LE(Len(entries))
                         \o IcoDirectory(entries, 1,
                                GROUP_HEADER_LEN + Len(entries) * ICO_ENTRY_LEN)
                         \o IcoPayload(entries, 1) >>

\* extract_pe_icons: the BTreeSet of the emitted icon files
extract_pe_icons(resources, data) ==
    LET icons == IconResources(resources, data)
    IN  { GroupIcon(resources[i], icons, data)[2] :
            i \in {j \in 1..Len(resources) :
                     /\ resources[j].type = RESOURCE_TYPE_GROUP_ICON
                     /\ resources[j].offset # 0
                     /\ GroupIcon(resources[j], icons, data)[1]} }

(***************************************************************************)
(* Generic executable record (exe.rs 53-98).  A version_info_list entry   *)
(* is [key, value] with value <<>> (None) or <<text>> (Some).             *)
(***************************************************************************)
ORIGINAL_FILENAME == "OriginalFilename"
FILE_DESCRIPTION == "FileDescription"
BASIC_INSTALLER_KEYWORDS == <<"installer", "setup", "7zs.sfx", "7zsd.sfx">>

\* Architecture::from_machine(pe.machine())
from_machine(machine) ==
    CASE machine = "MACHINE_I386" -> "X86"
      [] machine = "MACHINE_AMD64" -> "X64"
      [] machine = "MACHINE_ARM64" -> "Arm64"
      [] machine = "MACHINE_ARMNT" -> "Arm"
      [] OTHER -> "Neutral"

\* iter().find(key == "InternalName").and_then(value).map(lowercase)
\*     .unwrap_or_default()
RECURSIVE internal_name(_)
internal_name(list) ==
    IF list = <<>> THEN ""
    ELSE IF Head(list).key = "InternalName"
    THEN (IF Head(list).value = <<>> THEN ""
          ELSE to_ascii_lowercase(Head(list).value[1]))
    ELSE internal_name(Tail(list))

silent(name) ==
    CASE name = "sfxcab.exe" -> "/quiet"
      [] name \in {"7zs.sfx", "7z.sfx", "7zsd.sfx"} -> "/s"
      [] name = "setup launcher" -> "/s"
      [] name = "wextract" -> "/Q"
      [] OTHER -> ""

\* BASIC_INSTALLER_KEYWORDS.iter().any(|keyword| value.contains(keyword))
RECURSIVE AnyKeywordFrom(_, _)
AnyKeywordFrom(value, i) ==
    IF i > Len(BASIC_INSTALLER_KEYWORDS) THEN FALSE
    ELSE IF contains(value, BASIC_INSTALLER_KEYWORDS[i]) THEN TRUE
    ELSE AnyKeywordFrom(value, i + 1)

\* variant: the InternalName entry is searched for keywords as well
KeyMatches_WithInternalName(key) ==
    key \in {FILE_DESCRIPTION, ORIGINAL_FILENAME, "InternalName"}

\* The key filter of exe.rs 78
KeyMatches(key) == key \in {FILE_DESCRIPTION, ORIGINAL_FILENAME}

\* filter(key).filter_map(value.map(lowercase)).any(keyword)
RECURSIVE AnyInstallerKeyword(_)
AnyInstallerKeyword(list) ==
    IF list = <<>> THEN FALSE
    ELSE IF /\ KeyMatches(Head(list).key)
            /\ Head(list).value # <<>>
            /\ AnyKeywordFrom(to_ascii_lowercase(Head(list).value[1]), 1)
    THEN TRUE
    ELSE AnyInstallerKeyword(Tail(list))

GenericInstaller(pe) ==
    [architecture |-> from_machine(pe.machine),
     type |-> IF AnyInstallerKeyword(pe.version_info_list)
              THEN "Exe" ELSE "Portable",
     silent |-> silent(internal_name(pe.version_info_list)),
     silent_with_progress |-> silent(internal_name(pe.version_info_list))]

(***************************************************************************)
(* Extension routing (analyzer.rs 37-40, 47-90).                          *)
(***************************************************************************)
MSI == "msi"
MSIX == "msix"
APPX == "appx"
MSIX_BUNDLE == "msixbundle"
APPX_BUNDLE == "appxbundle"
ZIP == "zip"
EXE == "exe"

\* str without its trailing '/' characters
RECURSIVE StripSlash(_)
StripSlash(s) ==
    IF s # "" /\ Ch(s, Len(s)) = "/" THEN StripSlash(SubSeq(s, 1, Len(s) - 1))
    ELSE s

\* Utf8Path::file_name: the last component, "" when there is none
PathFileName(path) ==
    LET t == StripSlash(path)
        last == SubSeq(t, rfind(t, "/") + 1, Len(t))
    IN  IF last = ".." THEN "" ELSE last

\* Utf8Path::extension: <<>> (None) or <<text>>
PathExtension(path) ==
    LET f == PathFileName(path)
        dot == rfind(f, ".")
    IN  IF f = "" \/ dot <= 1 THEN <<>>
        ELSE <<SubSeq(f, dot + 1, Len(f))>>

\* variant: the extension is compared as written
Extension_CaseSensitive(file_name) ==
    LET e == PathExtension(file_name)
    IN  IF e = <<>> THEN "" ELSE e[1]

\* extension().unwrap_or_default().to_ascii_lowercase()
Extension(file_name) ==
    LET e == PathExtension(file_name)
    IN  IF e = <<>> THEN "" ELSE to_ascii_lowercase(e[1])

\* the arm of the match of analyzer.rs 47 taken for an extension
Route(extension) ==
    CASE extension = MSI -> "Msi"
      [] extension \in {MSIX, APPX} -> "Msix"
      [] extension \in {MSIX_BUNDLE, APPX_BUNDLE} -> "MsixBundle"
      [] extension = ZIP -> "Zip"
      [] extension = EXE -> "Exe"
      [] OTHER -> "Unsupported"

\* variant: the "x64" hint is looked for before the "arm64" hint
ArchitectureHint_X64First(installer, file_name) ==
    IF installer.architecture = "X86"
    THEN LET file_name_lower == to_ascii_lowercase(file_name)
         IN  IF contains(file_name_lower, "x64")
             THEN [installer EXCEPT !.architecture = "X64"]
             ELSE IF contains(file_name_lower, "arm64")
             THEN [installer EXCEPT !.architecture = "Arm64"]
             ELSE installer
    ELSE installer

\* The architecture hint taken from the file name (analyzer.rs 77-85)
ArchitectureHint(installer, file_name) ==
    IF installer.architecture = "X86"
    THEN LET file_name_lower == to_ascii_lowercase(file_name)
         IN  IF contains(file_name_lower, "arm64")
             THEN [installer EXCEPT !.architecture = "Arm64"]
             ELSE IF contains(file_name_lower, "x64")
             THEN [installer EXCEPT !.architecture = "X64"]
             ELSE installer
    ELSE installer

(***************************************************************************)
(* NSIS System plugin: parsing of call strings                            *)
(* (nsis/entry/plugins/system/call.rs).  An Option<String> is <<>> or     *)
(* <<text>>.                                                              *)
(***************************************************************************)
IsSpace(c) == c \in {" ", "\t", "\n", "\r"}
IsHexDigit(c) == IsDigit(c) \/ IndexOf("abcdefABCDEF", c) > 0
\* the quote characters ' and " (the code also takes the backquote, which a
\* TLA+ string cannot hold; no call string of the model contains one)
IsQuote(c) == c \in {"'", "\""}

\* indices of the characters of s that are not white space
Solid(s) == {i \in 1..Len(s) : ~IsSpace(Ch(s, i))}

\* str::trim_start / trim_end
trim_start(s) ==
    IF Solid(s) = {} THEN "" ELSE SubSeq(s, MinOf(Solid(s)), Len(s))

trim_end(s) ==
    IF Solid(s) = {} THEN "" ELSE SubSeq(s, 1, MaxOf(Solid(s)))

\* str::trim
trim(s) == trim_end(trim_start(s))

\* str::split_whitespace
RECURSIVE split_whitespace(_)
split_whitespace(s) ==
    LET t == trim_start(s)
        RECURSIVE WordEnd(_)
        WordEnd(i) == IF i > Len(t) \/ IsSpace(Ch(t, i)) THEN i ELSE WordEnd(i + 1)
    IN  IF t = "" THEN <<>>
        ELSE <<SubSeq(t, 1, WordEnd(1) - 1)>>
             \o split_whitespace(SubSeq(t, WordEnd(1), Len(t)))

\* value of a string of decimal digits
RECURSIVE DigitsValue(_, _)
DigitsValue(s, acc) ==
    IF s = "" THEN acc
    ELSE DigitsValue(SubSeq(s, 2, Len(s)), acc * 10 + IndexOf(DIGITS, Ch(s, 1)) - 1)

AllDigits(s) == \A i \in 1..Len(s) : IsDigit(Ch(s, i))

\* the longest numeral the model converts
MAX_DIGITS == 9

\* str::parse::<usize>(): <<>> or <<n>>; a leading '+' is accepted
parse_usize(s) ==
    LET d == IF s # "" /\ Ch(s, 1) = "+" THEN SubSeq(s, 2, Len(s)) ELSE s
    IN  IF d = "" \/ ~AllDigits(d) \/ Len(d) > MAX_DIGITS THEN <<>>
        ELSE <<DigitsValue(d, 0)>>

\* first index >= i of s whose character does not satisfy the digit test
RECURSIVE SkipDigits(_, _)
SkipDigits(s, i) ==
    IF i <= Len(s) /\ IsDigit(Ch(s, i)) THEN SkipDigits(s, i + 1) ELSE i

\* end of a quoted string opened at i - 1: just past the matching quote
SkipQuoted(s, i, quote) ==
    LET close == {j \in i..Len(s) : Ch(s, j) = quote}
    IN  IF close = {} THEN Len(s) + 1 ELSE MinOf(close) + 1

\* end of a numeric literal (call.rs 137-157)
RECURSIVE SkipNumber(_, _, _)
SkipNumber(s, i, saw_hex_prefix) ==
    IF i > Len(s) THEN i
    ELSE LET ch == Ch(s, i)
         IN  IF IsDigit(ch) \/ ch = "-" \/ ch = "|"
             THEN SkipNumber(s, i + 1, saw_hex_prefix)
             ELSE IF ch = "x" \/ ch = "X" THEN SkipNumber(s, i + 1, TRUE)
             ELSE IF saw_hex_prefix /\ IsHexDigit(ch)
             THEN SkipNumber(s, i + 1, saw_hex_prefix)
             ELSE i

\* index just past the source at the head of s (call.rs 104-159)
SourceEnd(s) ==
    LET c == Ch(s, 1)
    IN  IF IsQuote(c) THEN SkipQuoted(s, 2, c)
        ELSE IF c \in {".", "n", "s"} THEN 2
        ELSE IF c \in {"r", "R"} THEN SkipDigits(s, 2)
        ELSE IF c \in {"c", "d", "o", "e", "a"} THEN 2
        ELSE IF IsDigit(c) \/ c = "-" THEN SkipNumber(s, 1, FALSE)
        ELSE 1

\* index just past the destination at the head of s (call.rs 165-185)
DestinationEnd(s) ==
    LET c == Ch(s, 1)
    IN  IF c \in {".", "n", "s"} THEN 2
        ELSE IF c \in {"r", "R"} THEN SkipDigits(s, 2)
        ELSE 1

OptionUnlessIgnored(t) == IF t = "" \/ t = "." THEN <<>> ELSE <<t>>

\* parse_source_and_destination: <<source, destination>>
parse_source_and_destination(s) ==
    IF s = "" THEN << <<>>, <<>> >>
    ELSE LET e == SourceEnd(s)
             source == SubSeq(s, 1, e - 1)
             remaining == trim(SubSeq(s, e, Len(s)))
             destination == IF remaining = "" THEN ""
                            ELSE SubSeq(remaining, 1,
                                        DestinationEnd(remaining) - 1)
         IN  <<OptionUnlessIgnored(source), OptionUnlessIgnored(destination)>>

ParsedParam(t, src, dst) ==
    [param_type |-> t, source |-> src, destination |-> dst]

\* end of the long-form type after '&': letters and digits
RECURSIVE SkipAlnum(_, _)
SkipAlnum(s, i) ==
    IF i <= Len(s) /\ (IsAlpha(Ch(s, i)) \/ IsDigit(Ch(s, i)))
    THEN SkipAlnum(s, i + 1) ELSE i

\* index just past the type of the trimmed parameter t: an optional '*',
\* then '&' and a long-form type, or one letter (call.rs 35-69)
TypeEnd(t) ==
    LET a == IF Ch(t, 1) = "*" THEN 2 ELSE 1
    IN  IF a <= Len(t) /\ Ch(t, a) = "&" THEN SkipAlnum(t, a + 1)
        ELSE IF a <= Len(t) /\ IsAlpha(Ch(t, a)) THEN a + 1
        ELSE a

\* the parameter of type param_type whose trimmed rest is remaining
\* (call.rs 72-90)
ParamOfType(param_type, remaining) ==
    LET sd == parse_source_and_destination(remaining)
    IN  IF remaining = "" THEN ParsedParam(param_type, <<>>, <<>>)
        ELSE ParsedParam(param_type, sd[1], sd[2])

\* parse_param for a trimmed, non-empty parameter whose type ends before b
TypedParam(t, b) ==
    ParamOfType(SubSeq(t, 1, b - 1), trim(SubSeq(t, b, Len(t))))

TrimmedParam(t) ==
    IF t = "" THEN ParsedParam("", <<>>, <<>>) ELSE TypedParam(t, TypeEnd(t))

\* parse_param
parse_param(param_str) == TrimmedParam(trim(param_str))

\* split_params: split at commas outside quotes, each piece trimmed.  The
\* scan runs from one quote or comma to the next: first is where the piece
\* being collected began, i the position reached outside any quote.
RECURSIVE SplitFrom(_, _, _, _)
SplitFrom(s, first, i, result) ==
    LET marks == {j \in i..Len(s) : IsQuote(Ch(s, j)) \/ Ch(s, j) = ","}
        m == MinOf(marks)
        close == {j \in (m + 1)..Len(s) : Ch(s, j) = Ch(s, m)}
        current == SubSeq(s, first, Len(s))
    IN  IF marks = {}
        THEN (IF current # "" THEN Append(result, trim(current)) ELSE result)
        ELSE IF Ch(s, m) = ","
        THEN SplitFrom(s, m + 1, m + 1,
                       Append(result, trim(SubSeq(s, first, m - 1))))
        ELSE IF close = {} THEN Append(result, trim(current))
        ELSE SplitFrom(s, first, MinOf(close) + 1, result)

split_params(s) == SplitFrom(s, 1, 1, <<>>)

\* parse_params: [params, return_param] with return_param <<>> or <<param>>
parse_params(params_and_return) ==
    LET paren_start == find(params_and_return, "(")
        paren_end == rfind(params_and_return, ")")
        params_str == SubSeq(params_and_return, paren_start + 1, paren_end - 1)
        return_str == trim(SubSeq(params_and_return, paren_end + 1,
                                  Len(params_and_return)))
        param_strs == split_params(params_str)
    IN  IF paren_start = 0 \/ paren_end = 0
        THEN [params |-> <<>>, return_param |-> <<>>]
        ELSE [params |-> [i \in 1..Len(param_strs) |-> parse_param(param_strs[i])],
              return_param |-> IF return_str # "" THEN <<parse_param(return_str)>>
                               ELSE <<>>]

\* parse_register: <<>> or <<index>>
parse_register(reg) ==
    LET first == Ch(reg, 1)
        num == parse_usize(SubSeq(reg, 2, Len(reg)))
    IN  IF reg = "" \/ Len(reg) = 1 \/ num = <<>> THEN <<>>
        ELSE IF first = "r" THEN <<num[1]>>
        ELSE IF first = "R" THEN <<num[1] + 10>>
        ELSE <<>>

\* parse_register_name (plugins/system/mod.rs 85-104)
parse_register_name(name0) ==
    LET name == trim(name0)
        n == parse_usize(SubSeq(name, 2, Len(name)))
    IN  IF name = "" THEN <<>>
        ELSE IF Ch(name, 1) \in {"r", "R"}
        THEN (IF n = <<>> THEN <<>>
              ELSE IF Ch(name, 1) = "R" /\ n[1] < 10 THEN <<n[1] + 10>>
              ELSE n)
        ELSE parse_usize(name)

(***************************************************************************)
(* NSIS System plugin: evaluation.  The interpreter state st is           *)
(* [stack, variables, structs, stored, panic]: the NsisState operand      *)
(* stack and register map, the thread-local MOCK_STRUCTS and              *)
(* STORED_REGISTERS, and whether a slice index panicked.                  *)
(***************************************************************************)
Push(st, v) == [st EXCEPT !.stack = Append(@, v)]
Pop(st) ==
    [st EXCEPT !.stack = IF @ = <<>> THEN <<>> ELSE SubSeq(@, 1, Len(@) - 1)]
VarGet(st, idx) ==
    IF idx \in DOMAIN st.variables THEN <<st.variables[idx]>> ELSE <<>>
VarInsert(st, idx, v) == [st EXCEPT !.variables = MapPut(@, idx, v)]

\* store_to_destination
store_to_destination(st, dest, value) ==
    IF dest = "s" THEN Push(st, value)
    ELSE IF starts_with(dest, "r") \/ starts_with(dest, "R")
    THEN LET r == parse_register(dest)
         IN  IF r = <<>> THEN st ELSE VarInsert(st, r[1], value)
    ELSE st

\* variant: operands are left on the stack, the mocks not using them
PopStackSources_Unused(st, params, i) == st

\* call.rs 322-327: one pop per parameter whose source is the stack
RECURSIVE PopStackSources(_, _, _)
PopStackSources(st, params, i) ==
    IF i > Len(params) THEN st
    ELSE PopStackSources(
             IF params[i].source = <<"s">> THEN Pop(st) ELSE st, params, i + 1)

\* call.rs 368-383: value written to the destination of every pointer-typed
\* parameter that has one
RECURSIVE StorePointerParams(_, _, _, _)
StorePointerParams(st, params, i, value) ==
    IF i > Len(params) THEN st
    ELSE StorePointerParams(
             IF starts_with(params[i].param_type, "*")
                /\ params[i].destination # <<>>
             THEN store_to_destination(st, params[i].destination[1], value)
             ELSE st,
             params, i + 1, value)

\* variant: the token is the number of parameters, not the stack depth
StoreKnownFolder_ParamCount(st, params, i, path) ==
    IF params = <<>> \/ params[Len(params)].destination = <<>> THEN st
    ELSE store_to_destination(
             [st EXCEPT !.structs =
                 MapPut(@, ToString(Len(params)), <<path>>)],
             params[Len(params)].destination[1], ToString(Len(params)))

\* call.rs 424-436: a fresh token per "*p" parameter with a destination
RECURSIVE StoreKnownFolder(_, _, _, _)
StoreKnownFolder(st, params, i, path) ==
    IF i > Len(params) THEN st
    ELSE StoreKnownFolder(
             IF params[i].param_type = "*p" /\ params[i].destination # <<>>
             THEN LET ptr == ToString(Len(st.stack))
                  IN  store_to_destination(
                          [st EXCEPT !.structs = MapPut(@, ptr, <<path>>)],
                          params[i].destination[1], ptr)
             ELSE st,
             params, i + 1, path)

\* call.rs 399-421: the GUID between the first '{' and the next '}'
KnownFolderPath(params_and_return) ==
    LET start == find(params_and_return, "{")
        tail == SubSeq(params_and_return, start, Len(params_and_return))
        end == find(tail, "}")
        guid == IF start = 0 \/ end = 0 THEN "" ELSE SubSeq(tail, 1, end)
    IN  CASE guid = "{5CD7AEE2-2219-4A67-B85D-6C9CE15660CB}" ->
                <<"%LocalAppData%\\Programs">>
          [] guid = "{F1B32785-6FBA-4FCF-9D55-7B8E7F157091}" -> <<"%LocalAppData%">>
          [] guid = "{3EB685DB-65F9-4CF6-A03A-E3EF65729F3D}" -> <<"%AppData%">>
          [] guid = "{905E63B6-C1BF-494E-B29C-65B732D3D21A}" -> <<"%ProgramFiles%">>
          [] guid = "{6D809377-6AF0-444B-8957-A3773F02200E}" -> <<"%ProgramFiles%">>
          [] guid = "{7C5A40EF-A0FB-4BFC-874A-C0F2E0B9FA8E}" ->
                <<"%ProgramFiles(x86)%">>
          [] OTHER -> <<>>

\* the struct GetVersionEx fills in (call.rs 348-355)
VERSION_STRUCT == <<"284", "10", "0", "19041", "2", "">>

\* get_param_register_value: <<>> or <<value of the register>>
get_param_register_value(st, params_and_return) ==
    LET start == find(params_and_return, "(")
        end == find(params_and_return, ")")
        param == trim(SubSeq(params_and_return, start + 1, end - 1))
        reg_char == Ch(param, 2)
        digit == IndexOf(DIGITS, Ch(param, 3)) - 1
    IN  IF start = 0 \/ end = 0 \/ Len(param) < 3 THEN <<>>
        ELSE IF reg_char \notin {"r", "R"} \/ digit < 0 THEN <<>>
        ELSE VarGet(st, IF reg_char = "R" THEN digit + 10 ELSE digit)

\* handle_struct_operation
RECURSIVE StoreFields(_, _, _, _)
StoreFields(st, field_strs, field_values, i) ==
    IF i > Len(field_strs) THEN st
    ELSE StoreFields(
             IF i <= Len(field_values)
                /\ parse_param(field_strs[i]).destination # <<>>
             THEN store_to_destination(st,
                      parse_param(field_strs[i]).destination[1],
                      field_values[i])
             ELSE st,
             field_strs, field_values, i + 1)

handle_struct_operation(st, api_call) ==
    LET paren_start == find(api_call, "(")
        paren_end == rfind(api_call, ")")
        struct_spec == SubSeq(api_call, paren_start + 1, paren_end - 1)
        return_spec == SubSeq(api_call, paren_end + 1, Len(api_call))
        addr_part == SubSeq(api_call, 2, paren_start - 1)
        reg == parse_register(addr_part)
        ptr_addr == IF starts_with(addr_part, "r") \/ starts_with(addr_part, "R")
                    THEN (IF reg = <<>> THEN <<>> ELSE VarGet(st, reg[1]))
                    ELSE <<addr_part>>
    IN  IF paren_start = 0 \/ paren_end = 0 THEN st
        ELSE IF paren_end < paren_start THEN [st EXCEPT !.panic = TRUE]
        ELSE IF starts_with(api_call, "*(&")
        THEN LET return_param == parse_param(return_spec)
             IN  IF return_param.destination = <<>> THEN st
                 ELSE store_to_destination(st, return_param.destination[1],
                                           ToString(Len(st.stack)))
        ELSE IF ptr_addr = <<>> \/ ptr_addr[1] \notin DOMAIN st.structs THEN st
        ELSE StoreFields(st, split_params(struct_spec),
                         st.structs[ptr_addr[1]], 1)

\* kernel32::GetVersionEx (call.rs 339-360): <<state, result>>
VersionCall(st1, reg_value) ==
    << IF reg_value = <<>> THEN st1
       ELSE [st1 EXCEPT !.structs = MapPut(@, reg_value[1], VERSION_STRUCT)],
       "1" >>

\* shell32::SHGetKnownFolderPath (call.rs 423-441): <<state, result>>
KnownFolderCall(st1, params, path) ==
    IF path # <<>> THEN <<StoreKnownFolder(st1, params, 1, path[1]), "0">>
    ELSE <<st1, "1">>

\* the mocked API (call.rs 329-452): <<state after the mock, result>>
MockCall(st1, dll, function, params, params_and_return) ==
    CASE dll = "advapi32" ->
            IF function \in {"OpenSCManager", "OpenService",
                             "QueryServiceStatus", "CloseServiceHandle"}
            THEN <<st1, "1">> ELSE <<st1, "0">>
      [] dll = "kernel32" ->
            (CASE function = "GetVersionEx" ->
                    VersionCall(st1,
                        get_param_register_value(st1, params_and_return))
               [] function = "IsWow64Process2" ->
                    <<StorePointerParams(st1, params, 1, "34404"), "1">>
               [] function = "IsWow64Process" ->
                    << IF contains(params_and_return, "*i")
                       THEN StorePointerParams(st1, params, 1, "0")
                       ELSE st1,
                       "1" >>
               [] function \in {"GetTickCount", "GetLocalTime",
                                "GetSystemTime"} -> <<st1, "0">>
               [] function = "GetCurrentProcess" -> <<st1, "-1">>
               [] OTHER -> <<st1, "0">>)
      [] dll \in {"shell32", "SHELL32"} ->
            (CASE function = "SHChangeNotify" -> <<st1, "0">>
               [] function = "SHGetKnownFolderPath" ->
                    KnownFolderCall(st1, params,
                                    KnownFolderPath(params_and_return))
               [] OTHER -> <<st1, "0">>)
      [] OTHER -> <<st1, "0">>

\* the return value stored if there is a destination (call.rs 454-459)
StoreReturn(mock, return_param) ==
    IF return_param # <<>> /\ return_param[1].destination # <<>>
    THEN store_to_destination(mock[1], return_param[1].destination[1],
                              mock[2])
    ELSE mock[1]

\* call.rs 318-459: stack-sourced parameters popped, the API mocked, the
\* return value stored
EvaluateParsed(st, dll, function, params_and_return, parsed) ==
    StoreReturn(MockCall(PopStackSources(st, parsed.params, 1), dll, function,
                         parsed.params, params_and_return),
                parsed.return_param)

\* "dll::function(params)return" taken apart (call.rs 306-316)
SplitCall(api_call) ==
    LET sep == find(api_call, "::")
        rest == IF sep > 0 THEN SubSeq(api_call, sep + 2, Len(api_call))
                ELSE api_call
        paren == find(rest, "(")
    IN  [dll |-> IF sep > 0 THEN SubSeq(api_call, 1, sep - 1) ELSE "",
         function |-> IF paren > 0 THEN SubSeq(rest, 1, paren - 1) ELSE rest,
         params_and_return |-> IF paren > 0 THEN SubSeq(rest, paren, Len(rest))
                               ELSE ""]

EvaluateSplit(st, c) ==
    EvaluateParsed(st, c.dll, c.function, c.params_and_return,
                   parse_params(c.params_and_return))

\* call::evaluate (call.rs 298-460)
call_evaluate(st, api_call) ==
    IF starts_with(api_call, "*") /\ contains(api_call, "(")
    THEN handle_struct_operation(st, api_call)
    ELSE EvaluateSplit(st, SplitCall(api_call))

\* the register list of System::Store (mod.rs 36-44, 56-64)
RECURSIVE FilterRegisters(_)
FilterRegisters(words) ==
    IF words = <<>> THEN <<>>
    ELSE parse_register_name(Head(words)) \o FilterRegisters(Tail(words))

StoreRegisters(regs_str) ==
    IF regs_str = "" THEN [i \in 1..10 |-> i - 1]
    ELSE FilterRegisters(split_whitespace(regs_str))

\* System::Store L: registers loaded from the snapshot, position by position
RECURSIVE LoadRegisters(_, _, _)
LoadRegisters(st, regs, i) ==
    IF i > Len(regs) THEN st
    ELSE LoadRegisters(
             IF i <= Len(st.stored) THEN VarInsert(st, regs[i], st.stored[i])
             ELSE st,
             regs, i + 1)

\* variant: the snapshot is extended, not cleared first
SaveRegisters_Appends(st, regs) ==
    [st EXCEPT !.stored =
        @ \o [i \in 1..Len(regs) |->
                IF VarGet(st, regs[i]) = <<>> THEN ""
                ELSE VarGet(st, regs[i])[1]]]

\* System::Store S: the registers copied to the snapshot (mod.rs 45-54)
SaveRegisters(st, regs) ==
    [st EXCEPT !.stored =
        [i \in 1..Len(regs) |->
            IF VarGet(st, regs[i]) = <<>> THEN ""
            ELSE VarGet(st, regs[i])[1]]]

\* the trimmed argument of System::Store taken apart (mod.rs 34-77)
StoreTrimmed(st, args) ==
    IF starts_with(args, "S")
    THEN SaveRegisters(st, StoreRegisters(trim(SubSeq(args, 2, Len(args)))))
    ELSE IF starts_with(args, "L")
    THEN LoadRegisters(st, StoreRegisters(trim(SubSeq(args, 2, Len(args)))), 1)
    ELSE st

\* the "Store" arm of evaluate (mod.rs 30-77), args already popped
system_store(st, args0) == StoreTrimmed(st, trim(args0))

(***************************************************************************)
(* System::Int64Op (int64op.rs).  Operands are the integers the registers *)
(* 0 and 1 hold; results are rendered in decimal.                         *)
(***************************************************************************)
\* two's-complement bit operations on non-negative values and -1, one bit
\* at a time
RECURSIVE BitAnd(_, _)
BitAnd(a, b) ==
    IF a = 0 \/ b = 0 THEN 0
    ELSE IF a = -1 THEN b
    ELSE IF b = -1 THEN a
    ELSE (a % 2) * (b % 2) + 2 * BitAnd(a \div 2, b \div 2)

RECURSIVE BitOr(_, _)
BitOr(a, b) ==
    IF a = 0 THEN b
    ELSE IF b = 0 THEN a
    ELSE IF a = -1 \/ b = -1 THEN -1
    ELSE (IF a % 2 = 1 \/ b % 2 = 1 THEN 1 ELSE 0)
         + 2 * BitOr(a \div 2, b \div 2)

BitXor(a, b) == BitOr(a, b) - BitAnd(a, b)

RECURSIVE Pow2(_)
Pow2(k) == IF k = 0 THEN 1 ELSE 2 * Pow2(k - 1)

\* whether the build checks arithmetic for overflow (a debug build) or lets
\* it wrap (a release build); fixed for the life of the process
VARIABLE overflow_checks

\* An i64 is held as its eight bytes, least significant first.
\* i64::from(i32): sign extension
I64(n) ==
    LE32(n) \o (IF n < 0 THEN <<255, 255, 255, 255>> ELSE <<0, 0, 0, 0>>)

IsNegative(a) == a[8] >= 128

\* !a
Not64(a) == [i \in 1..8 |-> 255 - a[i]] \o <<>>

\* bytes i..8 of a + b + carry, the carry out of the top byte dropped
RECURSIVE AddBytes(_, _, _, _)
AddBytes(a, b, i, carry) ==
    IF i > 8 THEN <<>>
    ELSE <<(a[i] + b[i] + carry) % 256>>
         \o AddBytes(a, b, i + 1, (a[i] + b[i] + carry) \div 256)

wrapping_add(a, b) == AddBytes(a, b, 1, 0)
wrapping_sub(a, b) == AddBytes(a, Not64(b), 1, 1)
wrapping_neg(a) == wrapping_sub(I64(0), a)

\* sum of the byte products that fall on byte k of a * b
RECURSIVE ColumnSum(_, _, _, _)
ColumnSum(a, b, k, i) ==
    IF i > k THEN 0 ELSE a[i] * b[k + 1 - i] + ColumnSum(a, b, k, i + 1)

RECURSIVE MulBytes(_, _, _, _)
MulBytes(a, b, k, carry) ==
    IF k > 8 THEN <<>>
    ELSE <<(ColumnSum(a, b, k, 1) + carry) % 256>>
         \o MulBytes(a, b, k + 1, (ColumnSum(a, b, k, 1) + carry) \div 256)

wrapping_mul(a, b) == MulBytes(a, b, 1, 0)

\* a < b as u64: decided by the most significant byte that differs
RECURSIVE BelowFrom(_, _, _)
BelowFrom(a, b, i) ==
    IF i = 0 THEN FALSE
    ELSE IF a[i] # b[i] THEN a[i] < b[i]
    ELSE BelowFrom(a, b, i - 1)

\* a < b as i64
Less(a, b) ==
    IF IsNegative(a) # IsNegative(b) THEN IsNegative(a)
    ELSE BelowFrom(a, b, 8)

\* bit i (0 the least significant) of a
Bit(a, i) == (a[(i \div 8) + 1] \div Pow2(i % 8)) % 2

\* byte j of a widened upward by bytes of value ext and downward by zeros
ByteAt(a, j, ext) == IF j < 1 THEN 0 ELSE IF j > 8 THEN ext ELSE a[j]

\* a << k, 0 <= k <= 63: k \div 8 whole bytes and k % 8 bits upward
ShlBits(a, k) ==
    [i \in 1..8 |->
        ((ByteAt(a, i - (k \div 8), 0) * Pow2(k % 8)) % 256)
        + (ByteAt(a, i - (k \div 8) - 1, 0) \div Pow2(8 - (k % 8)))] \o <<>>

\* a >> k, 0 <= k <= 63, the vacated top bits taken from bytes of value ext
\* (0, or 255 to repeat the sign)
ShrBits(a, k, ext) ==
    [i \in 1..8 |->
        (ByteAt(a, i + (k \div 8), ext) \div Pow2(k % 8))
        + ((ByteAt(a, i + (k \div 8) + 1, ext) * Pow2(8 - (k % 8))) % 256)]
    \o <<>>

SHIFT_BITS == 64

\* arg2 as u32: the low four bytes, as <<whether it is below 64, its low
\* six bits>>
ShiftCount(arg2) ==
    << arg2[1] < SHIFT_BITS /\ arg2[2] = 0 /\ arg2[3] = 0 /\ arg2[4] = 0,
       arg2[1] % SHIFT_BITS >>

\* i64::wrapping_shl / wrapping_shr: the count is masked to its low six bits
wrapping_shl(a, arg2) == ShlBits(a, ShiftCount(arg2)[2])
wrapping_shr(a, arg2) ==
    ShrBits(a, ShiftCount(arg2)[2], IF IsNegative(a) THEN 255 ELSE 0)

\* ((arg1 as u64) >> (arg2 as u32)) as i64: the plain operator; a count of
\* 64 or more is an overflow, which a build with overflow checks answers
\* with a panic (<<>> here) and a build without by masking the count
ShiftRightLogical(a, arg2) ==
    IF ~ShiftCount(arg2)[1] /\ overflow_checks THEN <<>>
    ELSE ShrBits(a, ShiftCount(arg2)[2], 0)

\* u64 division of n by d # 0, one bit of n at a time from bit i down; qr
\* is <<quotient, remainder>> of the bits above i
RECURSIVE DivBits(_, _, _, _)
DivBits(n, d, i, qr) ==
    IF i < 0 THEN qr
    ELSE LET r2 == AddBytes(qr[2], qr[2], 1, Bit(n, i))
         IN  IF BelowFrom(r2, d, 8)
             THEN DivBits(n, d, i - 1, <<AddBytes(qr[1], qr[1], 1, 0), r2>>)
             ELSE DivBits(n, d, i - 1, <<AddBytes(qr[1], qr[1], 1, 1),
                                         wrapping_sub(r2, d)>>)

\* unsigned_abs
Magnitude(a) == IF IsNegative(a) THEN wrapping_neg(a) ELSE a

UnsignedDivRem(a, b) ==
    DivBits(Magnitude(a), Magnitude(b), SHIFT_BITS - 1, <<I64(0), I64(0)>>)

\* i64::wrapping_div / wrapping_rem for b # 0: the quotient is truncated
\* toward zero, the remainder takes the sign of a; MIN / -1 wraps to MIN
wrapping_div(a, b) ==
    IF IsNegative(a) # IsNegative(b) THEN wrapping_neg(UnsignedDivRem(a, b)[1])
    ELSE UnsignedDivRem(a, b)[1]

wrapping_rem(a, b) ==
    IF IsNegative(a) THEN wrapping_neg(UnsignedDivRem(a, b)[2])
    ELSE UnsignedDivRem(a, b)[2]

And64(a, b) == [i \in 1..8 |-> BitAnd(a[i], b[i])] \o <<>>
Or64(a, b) == [i \in 1..8 |-> BitOr(a[i], b[i])] \o <<>>
Xor64(a, b) == [i \in 1..8 |-> BitXor(a[i], b[i])] \o <<>>

\* remainder by ten of the bytes of a above byte i
RECURSIVE RemAbove(_, _)
RemAbove(a, i) ==
    IF i = 8 THEN 0 ELSE (RemAbove(a, i + 1) * 256 + a[i + 1]) % 10

\* a as u64 divided by ten
DivTen(a) == [i \in 1..8 |-> (RemAbove(a, i) * 256 + a[i]) \div 10] \o <<>>

\* decimal digits of a as u64, none for zero
RECURSIVE Digits64(_)
Digits64(a) ==
    IF a = I64(0) THEN ""
    ELSE Digits64(DivTen(a)) \o Ch(DIGITS, RemAbove(a, 0) + 1)

\* i64::to_string
to_string(a) ==
    IF a = I64(0) THEN "0"
    ELSE IF IsNegative(a) THEN "-" \o Digits64(wrapping_neg(a))
    ELSE Digits64(a)

Flag(b) == IF b THEN I64(1) ELSE I64(0)

\* evaluate_operation(operation, arg1, Some(arg2)), before to_string; <<>>
\* where the evaluation panics
BinaryOperation(op, arg1, arg2) ==
    CASE op = "+" -> wrapping_add(arg1, arg2)
      [] op = "-" -> wrapping_sub(arg1, arg2)
      [] op = "*" -> wrapping_mul(arg1, arg2)
      [] op = "/" -> IF arg2 # I64(0) THEN wrapping_div(arg1, arg2) ELSE I64(0)
      [] op = "%" -> IF arg2 # I64(0) THEN wrapping_rem(arg1, arg2) ELSE I64(0)
      [] op = "<<" -> wrapping_shl(arg1, arg2)
      [] op = ">>" -> wrapping_shr(arg1, arg2)
      [] op = ">>>" -> ShiftRightLogical(arg1, arg2)
      [] op = "|" -> Or64(arg1, arg2)
      [] op = "&" -> And64(arg1, arg2)
      [] op = "^" -> Xor64(arg1, arg2)
      [] op = "||" -> Flag(arg1 # I64(0) \/ arg2 # I64(0))
      [] op = "&&" -> Flag(arg1 # I64(0) /\ arg2 # I64(0))
      [] op = "<" -> Flag(Less(arg1, arg2))
      [] op = "=" -> Flag(arg1 = arg2)
      [] op = ">" -> Flag(Less(arg2, arg1))
      [] OTHER -> arg1

\* evaluate_operation(operation, arg1, None), before to_string
UnaryOperation(op, arg1) ==
    CASE op = "~" -> Not64(arg1)
      [] op = "!" -> Flag(arg1 = I64(0))
      [] OTHER -> arg1

\* the String a computation returns: <<>> if it panicked, else <<text>>
Rendered(result) == IF result = <<>> THEN <<>> ELSE <<to_string(result)>>

\* evaluate_operation: arg2 is <<>> (None) or <<i64>>; the result is <<>>
\* if the call panics, else <<the String returned>>
evaluate_operation(operation, arg1, arg2) ==
    IF arg2 = <<>> THEN Rendered(UnaryOperation(trim(operation), arg1))
    ELSE Rendered(BinaryOperation(trim(operation), arg1, arg2[1]))

\* NsisState::get_int: the register read as a decimal integer, 0 otherwise
get_int(st, index) ==
    LET v == IF VarGet(st, index) = <<>> THEN "" ELSE trim(VarGet(st, index)[1])
        negative == v # "" /\ Ch(v, 1) = "-"
        n == parse_usize(IF negative THEN SubSeq(v, 2, Len(v)) ELSE v)
    IN  IF n = <<>> THEN 0 ELSE IF negative THEN -n[1] ELSE n[1]

\* int64op::evaluate: <<state with the operation popped, result>>, the
\* result <<>> if evaluate_operation panicked
int64op_evaluate(st) ==
    LET operation == IF st.stack = <<>> THEN "" ELSE st.stack[Len(st.stack)]
    IN  <<Pop(st), evaluate_operation(operation, I64(get_int(st, 0)),
                                      <<I64(get_int(st, 1))>>)>>

\* the "Int64Op" arm of evaluate: the result is pushed
system_int64op(popped, result) ==
    IF result = <<>> THEN [popped EXCEPT !.panic = TRUE]
    ELSE Push(popped, result[1])

\* plugins/system/mod.rs evaluate
system_evaluate(st, function_str) ==
    CASE function_str = "Call" ->
            IF st.stack = <<>> THEN st
            ELSE call_evaluate(Pop(st), st.stack[Len(st.stack)])
      [] function_str = "Free" -> Pop(st)
      [] function_str = "Int64Op" ->
            system_int64op(int64op_evaluate(st)[1], int64op_evaluate(st)[2])
      [] function_str = "Store" ->
            IF st.stack = <<>> THEN st
            ELSE system_store(Pop(st), st.stack[Len(st.stack)])
      [] OTHER -> st

(***************************************************************************)
(* The files analysed.  Contents are built from the layouts the parsers   *)
(* read; an input refers to its content by name.                          *)
(***************************************************************************)
RECURSIVE Utf16Encode(_)
Utf16Encode(u) ==
    IF u = <<>> THEN <<>>
    ELSE <<Head(u) % 256, Head(u) \div 256>> \o Utf16Encode(Tail(u))

\* one file-table entry as ParseEntries reads it
EntryBytes(e) ==
    Zeros(8) \o LE32(e.encoding_flag) \o LE32(e.size) \o LE32(e.offset)
    \o LE32(Len(e.name)) \o Utf16Encode(e.name)

RECURSIVE TableBytes(_)
TableBytes(entries) ==
    IF entries = <<>> THEN <<>>
    ELSE EntryBytes(Head(entries)) \o TableBytes(Tail(entries))

\* payload area, file table, 60-byte footer, magic, padding, trailing bytes
AdvContainer(payload, entries, num_files, files_offset, pad, tail) ==
    payload \o TableBytes(entries) \o Zeros(4) \o LE32(num_files) \o Zeros(8)
    \o LE32(files_offset) \o Zeros(FOOTER_BACK - 20) \o ADVINST_MAGIC
    \o Zeros(pad) \o tail

Invert(b) == [i \in 1..Len(b) |-> 255 - b[i]]

NAME_A_MSI == <<97, 46, 109, 115, 105>>
NAME_B_MSI_UPPER == <<98, 46, 77, 83, 73>>
NAME_P_7Z == <<112, 46, 55, 122>>
NAME_C_INI == <<99, 46, 105, 110, 105>>
NAME_A_TXT == <<97, 46, 116, 120, 116>>

PAYLOAD_MSI_1 == CFB_SIGNATURE \o <<0, 7>>
PAYLOAD_MSI_2 == CFB_SIGNATURE \o <<1, 7>>
PAYLOAD_JUNK == <<1, 2, 3, 4, 5, 6, 7, 8, 9, 10>>
PAYLOAD_7Z == SEVENZ_SIGNATURE \o <<2, 10>> \o PAYLOAD_MSI_2 \o <<3, 1, 2, 3>>
PAYLOAD_7Z_TWO ==
    SEVENZ_SIGNATURE \o <<2, 10>> \o PAYLOAD_MSI_1 \o <<10>> \o PAYLOAD_MSI_2

FileEntry(name, size, offset, flag) ==
    [name |-> name, size |-> size, offset |-> offset, encoding_flag |-> flag]

ICON_A == <<1, 1, 1, 1, 1>>
ICON_B == <<2, 2, 2>>

\* a 14-byte group directory entry
GroupEntryBytes(w, h, len, id) ==
    <<w, h, 0, 9>> \o U16LE(1) \o U16LE(32) \o LE32(len) \o U16LE(id)

ICON_GROUP ==
    <<0, 0, 1, 0>> \o U16LE(2) \o GroupEntryBytes(16, 16, 5, 1)
    \o GroupEntryBytes(32, 32, 3, 2)

Bytes(id) ==
    CASE id = "empty" -> <<>>
      [] id = "plain10" -> Fill(10)
      [] id = "plain40" -> Fill(40)
      [] id = "icons" -> Fill(8) \o ICON_A \o ICON_B \o ICON_GROUP
      [] id = "adv_short" -> Fill(20) \o ADVINST_MAGIC \o Zeros(3)
      [] id = "adv_msi" ->
            AdvContainer(PAYLOAD_MSI_1, <<FileEntry(NAME_A_MSI, 10, 0, 0)>>,
                         1, 10, 5, <<>>)
      [] id = "adv_two" ->
            AdvContainer(PAYLOAD_MSI_1 \o Invert(PAYLOAD_MSI_2),
                         <<FileEntry(NAME_A_MSI, 10, 0, 0),
                           FileEntry(NAME_C_INI, 4, 0, 0),
                           FileEntry(NAME_B_MSI_UPPER, 10, 10, 2)>>,
                         3, 20, 0, <<>>)
      [] id = "adv_7z" ->
            AdvContainer(PAYLOAD_7Z \o PAYLOAD_MSI_1,
                         <<FileEntry(NAME_P_7Z, 22, 0, 0),
                           FileEntry(NAME_A_MSI, 10, 22, 0)>>,
                         2, 32, 7, <<>>)
      [] id = "adv_arc" ->
            AdvContainer(PAYLOAD_7Z_TWO,
                         <<FileEntry(NAME_P_7Z, 29, 0, 0),
                           FileEntry(NAME_C_INI, 4, 0, 0)>>,
                         2, 29, 3, <<>>)
      [] id = "adv_nomsi" ->
            AdvContainer(PAYLOAD_JUNK,
                         <<FileEntry(NAME_A_TXT, 10, 0, 0),
                           FileEntry(NAME_A_MSI, 10, 0, 0)>>,
                         2, 10, 2, <<>>)
      [] id = "adv_trunc" ->
            AdvContainer(PAYLOAD_MSI_1, <<FileEntry(NAME_A_MSI, 10, 0, 0)>>,
                         1, 500, 5, <<>>)
      [] id = "adv_negative" ->
            AdvContainer(PAYLOAD_MSI_1, <<FileEntry(NAME_A_MSI, 10, 0, 0)>>,
                         -1, 10, 5, <<>>)
      [] id = "adv_cert" ->
            AdvContainer(PAYLOAD_MSI_1, <<FileEntry(NAME_A_MSI, 10, 0, 0)>>,
                         1, 10, 5, Fill(30))

\* offset of the certificate table appended to "adv_cert"
ADV_CERT_OFFSET == Len(Bytes("adv_msi"))

\* whether the magic occurs anywhere in the bytes
HasAdvMagic(data) ==
    \E i \in 0..(Len(data) - Len(ADVINST_MAGIC)) :
        SubSeq(data, i + 1, i + Len(ADVINST_MAGIC)) = ADVINST_MAGIC

(***************************************************************************)
(* Inputs of Analyzer::new: the declared file name, the mapped bytes and  *)
(* what the PE parser reports about them.  burn / inno / nsis say what    *)
(* those probes find in the file: "Not" (no signature), "Ok" or "Err"     *)
(* (signature present but malformed); parse says the same of the          *)
(* container parsers of the non-executable routes.                        *)
(***************************************************************************)
KV(k, v) == [key |-> k, value |-> <<v>>]
KNone(k) == [key |-> k, value |-> <<>>]

Resource(t, id, offset, length) ==
    [type |-> t, id |-> id, offset |-> offset, length |-> length]

BaseInput ==
    [file_name |-> "a.exe", data |-> "plain40", dd4 |-> 0,
     machine |-> "MACHINE_I386", version_info_list |-> <<>>,
     resources |-> <<>>, burn |-> "Not", inno |-> "Not", nsis |-> "Not",
     script |-> <<>>, parse |-> "Ok"]

FileNames ==
    {"a.exe", "A.EXE", "a.Exe", "a.msi", "b.MSI", "a.msix", "a.APPX",
     "a.msixbundle", "a.AppxBundle", "a.zip", "a.tar.Zip", "a.txt", "a",
     "a.", ".exe", "a.exe.bak", "dir.exe/a", "dir/a.exe/", "exe", "a.exe "}

HintNames ==
    {"a.exe", "app-x64.exe", "app-ARM64.exe", "arm64-x64.exe", "X64.EXE"}

Machines ==
    {"MACHINE_I386", "MACHINE_AMD64", "MACHINE_ARM64", "MACHINE_ARMNT"}

VersionLists ==
    { <<>>,
      <<KV(FILE_DESCRIPTION, "My Setup")>>,
      <<KV(ORIGINAL_FILENAME, "INSTALLER.EXE")>>,
      <<KV(FILE_DESCRIPTION, "App"), KV(ORIGINAL_FILENAME, "7ZS.SFX")>>,
      <<KV(FILE_DESCRIPTION, "7zsd.sfx"), KV("InternalName", "7zSD.sfx")>>,
      <<KNone(FILE_DESCRIPTION)>>,
      <<KNone(ORIGINAL_FILENAME), KV(ORIGINAL_FILENAME, "Setup.exe")>>,
      <<KV("InternalName", "setup")>>,
      <<KV("filedescription", "setup")>>,
      <<KV("CompanyName", "Setup Corp"), KV(FILE_DESCRIPTION, "set up")>>,
      <<KV(FILE_DESCRIPTION, "App"), KV(ORIGINAL_FILENAME, "app.exe")>>,
      <<KV(FILE_DESCRIPTION, "7z.sfx"), KV("InternalName", "7z.sfx")>>,
      <<KNone("InternalName"), KV("InternalName", "wextract")>>,
      <<KV("InternalName", "Setup Launcher"),
        KV(FILE_DESCRIPTION, "uninstaller")>>,
      <<KV("InternalName", "SFXCAB.EXE")>> }

\* data and certificate-table address pairs for the Advanced Installer probe
AdvancedCases ==
    { <<"empty", 0>>, <<"plain10", 0>>, <<"plain10", -1>>, <<"plain40", -1>>,
      <<"plain40", 10>>, <<"plain40", 30>>, <<"plain40", 40>>,
      <<"plain40", 41>>, <<"plain40", 58>>, <<"plain40", 70>>,
      <<"adv_short", 0>>, <<"adv_msi", 0>>, <<"adv_msi", 50>>,
      <<"adv_two", 0>>, <<"adv_7z", 0>>, <<"adv_arc", 0>>,
      <<"adv_nomsi", 0>>,
      <<"adv_trunc", 0>>, <<"adv_negative", 0>>,
      <<"adv_cert", ADV_CERT_OFFSET>>, <<"adv_cert", 0>>,
      <<"adv_7z", Len(Bytes("adv_7z")) - 7>> }

IconResourceLists ==
    { <<Resource(RESOURCE_TYPE_ICON, 1, 8, 5),
        Resource(RESOURCE_TYPE_ICON, 2, 13, 3),
        Resource(RESOURCE_TYPE_GROUP_ICON, 1, 16, 34)>>,
      <<Resource(RESOURCE_TYPE_ICON, 2, 13, 3),
        Resource(RESOURCE_TYPE_GROUP_ICON, 1, 16, 34)>>,
      <<Resource(RESOURCE_TYPE_GROUP_ICON, 1, 16, 34)>>,
      <<Resource(RESOURCE_TYPE_ICON, 1, 8, 5),
        Resource(RESOURCE_TYPE_GROUP_ICON, 1, 16, 340)>> }

ProbeFindings == {"Not", "Ok", "Err"}

\* one plugin call of an NSIS script: the strings pushed, then the function
PluginCall(function, push) == [function |-> function, push |-> push]
SystemCall(api_call) == PluginCall("Call", <<api_call>>)

FOLDERID_UserProgramFiles == "{5CD7AEE2-2219-4A67-B85D-6C9CE15660CB}"

CALL_KNOWN_FOLDER ==
    "shell32::SHGetKnownFolderPath(g \"" \o FOLDERID_UserProgramFiles
        \o "\", i 0, p 0, *p .r1)i.r0"
CALL_ALLOC == "*(&l4, i 0, i 0, i 0, i 0, i 0)p.r5"
CALL_VERSION == "kernel32::GetVersionEx(p r5)i.r0"
CALL_READ_VERSION == "*r5(i .r6, i .r7, i .r8, i .r9)"
CALL_READ_FOLDER == "*r1(t .r2)"
CALL_WOW64 == "kernel32::IsWow64Process2(p -1, *i .r0, *i .r1)i.R3"
CALL_MESSAGE == "user32::MessageBox(p 0, t s, t 'a,b', i 0) i .s"
CALL_MALFORMED == "*)("

\* the plugin calls Nsis::new meets in the scripts of the files analysed
Scripts ==
    { <<SystemCall(CALL_KNOWN_FOLDER), SystemCall(CALL_READ_FOLDER),
        PluginCall("Free", <<"0">>)>>,
      <<SystemCall(CALL_ALLOC), SystemCall(CALL_READ_FOLDER),
        SystemCall(CALL_READ_VERSION)>>,
      <<SystemCall(CALL_ALLOC), SystemCall(CALL_VERSION),
        SystemCall(CALL_READ_VERSION)>>,
      <<SystemCall(CALL_WOW64), PluginCall("Store", <<"S r0 R3">>),
        PluginCall("Int64Op", <<"+">>)>>,
      <<PluginCall("Store", <<"L r4 r5">>), SystemCall(CALL_READ_VERSION)>>,
      <<PluginCall("Store", <<"L">>)>>,
      <<SystemCall(CALL_MESSAGE), PluginCall("Alloc", <<>>),
        PluginCall("Int64Op", <<"~">>)>>,
      <<SystemCall(CALL_WOW64), SystemCall(CALL_MALFORMED),
        SystemCall(CALL_KNOWN_FOLDER)>>,
      <<PluginCall("Call", <<>>), PluginCall("Store", <<>>),
        PluginCall("Free", <<>>)>> }

Inputs ==
    {[BaseInput EXCEPT !.file_name = n, !.parse = p] :
        n \in FileNames, p \in {"Ok", "Err"}}
    \cup {[BaseInput EXCEPT !.file_name = n, !.machine = m] :
        n \in HintNames, m \in Machines}
    \cup {[BaseInput EXCEPT !.version_info_list = v] : v \in VersionLists}
    \cup {[BaseInput EXCEPT !.data = c[1], !.dd4 = c[2]] : c \in AdvancedCases}
    \cup {[BaseInput EXCEPT !.data = "icons", !.resources = r] :
        r \in IconResourceLists}
    \cup {[BaseInput EXCEPT !.burn = b, !.inno = i, !.nsis = n] :
        b \in ProbeFindings, i \in ProbeFindings, n \in ProbeFindings}
    \cup {[BaseInput EXCEPT !.data = "adv_msi", !.burn = b, !.nsis = n,
                            !.file_name = "Setup-x64.EXE"] :
        b \in ProbeFindings, n \in ProbeFindings}
    \cup {[BaseInput EXCEPT !.data = "plain40", !.dd4 = 70, !.inno = i] :
        i \in ProbeFindings}
    \cup {[BaseInput EXCEPT !.nsis = "Ok", !.script = c] : c \in Scripts}

(***************************************************************************)
(* State.                                                                 *)
(***************************************************************************)
VARIABLES
    input,              \* the file handed to Analyzer::new
    pc,                 \* where the analysis stands
    pos,                \* position of the Cursor shared by the probes
    invoked,            \* probes invoked so far in this analysis, in order
    exe,                \* the Exe value built by Exe::new
    analysis,           \* what Analyzer::new returns
    stack,              \* NsisState.stack, top of stack last
    variables,          \* NsisState.variables: register index -> value
    ip,                 \* next plugin call of the NSIS script
    MOCK_STRUCTS,       \* thread_local struct side table: address -> fields
    STORED_REGISTERS    \* thread_local snapshot written by System::Store S

vars == <<input, pc, pos, invoked, exe, analysis, stack, variables, ip,
          MOCK_STRUCTS, STORED_REGISTERS, overflow_checks>>

vm == <<stack, variables, ip>>
statics == <<MOCK_STRUCTS, STORED_REGISTERS>>

\* what the build fixed
profile == <<overflow_checks>>

NoExe == [kind |-> "None", installers |-> <<>>]
Running == [status |-> "Running", error |-> "", installers |-> <<>>,
            icons |-> {}]
Failed(error) == [status |-> "Err", error |-> error, installers |-> <<>>,
                  icons |-> {}]
Panicked == [status |-> "Panic", error |-> "", installers |-> <<>>,
             icons |-> {}]

\* The state in which Analyzer::new is entered for file in
Start(in) ==
    /\ input = in
    /\ pc = "Analyzer"
    /\ pos = 0
    /\ invoked = <<>>
    /\ exe = NoExe
    /\ analysis = Running
    /\ stack = <<>>
    /\ variables = EmptyMap
    /\ ip = 1

Init ==
    /\ \E in \in Inputs : Start(in)
    /\ MOCK_STRUCTS = EmptyMap
    /\ STORED_REGISTERS = <<>>
    /\ overflow_checks \in BOOLEAN

(***************************************************************************)
(* Analyzer::new up to the route taken (analyzer.rs 36-71).               *)
(***************************************************************************)
\* Msi::new / Msix::new / MsixBundle::new / Zip::new and their installers()
ContainerInstallers(route) ==
    <<[architecture |-> "Neutral", type |-> route, silent |-> "",
       silent_with_progress |-> ""]>>

AnalyzerNew ==
    /\ pc = "Analyzer"
    /\ LET route == Route(Extension(input.file_name))
       IN  CASE route = "Unsupported" ->
                  /\ analysis' = Failed("UnsupportedExtension")
                  /\ pc' = "Done"
             [] route = "Exe" ->
                  /\ analysis' = analysis
                  /\ pc' = "AdvancedInstaller"
             [] OTHER ->
                  /\ analysis' =
                        IF input.parse = "Ok"
                        THEN [Running EXCEPT
                                 !.status = "Ok",
                                 !.installers = ContainerInstallers(route)]
                        ELSE Failed(route)
                  /\ pc' = "Done"
    /\ invoked' = IF Route(Extension(input.file_name))
                        \in {"Unsupported", "Exe"}
                  THEN invoked
                  ELSE Append(invoked, Route(Extension(input.file_name)))
    /\ pos' = 0
    /\ UNCHANGED <<input, exe, vm, statics, profile>>

(***************************************************************************)
(* Exe::new (exe.rs 28-99), one step per probe.                           *)
(***************************************************************************)
\* the record Msi::installers() yields for a payload
MsiInstaller(payload) ==
    [architecture |-> IF payload[9] = 1 THEN "X64" ELSE "X86",
     type |-> "Msi", silent |-> "", silent_with_progress |-> ""]

\* AdvancedInstaller::installers (advanced.rs 129-180)
AdvancedInstallers(msis) ==
    [i \in 1..Len(msis) |->
        [MsiInstaller(msis[i]) EXCEPT
            !.type = "Exe",
            !.silent = "/exenoui /quiet",
            !.silent_with_progress = "/exenoui /passive"]]

\* variant: Inno is tried before Burn
NextProbe_InnoBeforeBurn(probe) ==
    CASE probe = "AdvancedInstaller" -> "Inno"
      [] probe = "Inno" -> "Burn"
      [] probe = "Burn" -> "Nsis"
      [] probe = "Nsis" -> "Generic"

\* the next step of Exe::new after a probe declined
NextProbe(probe) ==
    CASE probe = "AdvancedInstaller" -> "Burn"
      [] probe = "Burn" -> "Inno"
      [] probe = "Inno" -> "Nsis"
      [] probe = "Nsis" -> "Generic"

\* variant: every error of a probe lets the chain go on
NotThisFormat_AnyError(res) == res \in {"NotAdvancedInstallerFile", "Not", "Io", "Err"}

\* the errors Exe::new takes as a decline: the probe's own
\* not-this-format error (exe.rs 31, 37, 43, 49)
NotThisFormat(res) == res \in {"NotAdvancedInstallerFile", "Not"}

\* the cursor handed to the next probe when one declines at position p
HandOver(p) == p

ProbeAdvancedInstaller ==
    /\ pc = "AdvancedInstaller"
    /\ invoked' = Append(invoked, "AdvancedInstaller")
    /\ \E build \in {IF overflow_checks THEN "debug" ELSE "release"} :
         LET r == AdvancedInstaller_new(Bytes(input.data), input.dd4, pos,
                                        build)
         IN  CASE r.res = "Ok" ->
                    /\ exe' = [kind |-> "AdvancedInstaller",
                               installers |-> AdvancedInstallers(r.msis)]
                    /\ pc' = "Collect"
                    /\ pos' = r.pos
                    /\ analysis' = analysis
               [] r.res = "Panic" ->
                    /\ exe' = exe
                    /\ pc' = "Done"
                    /\ pos' = r.pos
                    /\ analysis' = Panicked
               [] r.res # "Ok" /\ r.res # "Panic" /\ NotThisFormat(r.res) ->
                    /\ exe' = exe
                    /\ pc' = NextProbe("AdvancedInstaller")
                    /\ pos' = HandOver(r.pos)
                    /\ analysis' = analysis
               [] OTHER ->
                    /\ exe' = exe
                    /\ pc' = "Done"
                    /\ pos' = r.pos
                    /\ analysis' = Failed("AdvancedInstallerError::" \o r.res)
    /\ UNCHANGED <<input, vm, statics, profile>>

\* Burn::new, Inno::new: the probe recognizes, declines or fails according
\* to what the file holds, and leaves the cursor somewhere in the file
SignatureProbe(probe, finding, kind) ==
    /\ pc = probe
    /\ invoked' = Append(invoked, probe)
    /\ \E p \in {0, Len(Bytes(input.data))} :
         CASE finding = "Ok" ->
                /\ exe' = [kind |-> kind,
                           installers |->
                              <<[architecture |-> from_machine(input.machine),
                                 type |-> kind, silent |-> "",
                                 silent_with_progress |-> ""]>>]
                /\ pc' = "Collect"
                /\ pos' = p
                /\ analysis' = analysis
           [] finding # "Ok" /\ NotThisFormat(finding) ->
                /\ exe' = exe
                /\ pc' = NextProbe(probe)
                /\ pos' = HandOver(p)
                /\ analysis' = analysis
           [] OTHER ->
                /\ exe' = exe
                /\ pc' = "Done"
                /\ pos' = p
                /\ analysis' = Failed(probe)
    /\ UNCHANGED <<input, vm, statics, profile>>

ProbeBurn == SignatureProbe("Burn", input.burn, "Burn")
ProbeInno == SignatureProbe("Inno", input.inno, "Inno")

\* Nsis::new: a recognized file has its script evaluated on a new NsisState
ProbeNsis ==
    IF input.nsis = "Ok"
    THEN /\ pc = "Nsis"
         /\ invoked' = Append(invoked, "Nsis")
         /\ pc' = "NsisScript"
         /\ pos' \in {0, Len(Bytes(input.data))}
         /\ stack' = <<>>
         /\ variables' = EmptyMap
         /\ ip' = 1
         /\ UNCHANGED <<input, exe, analysis, statics, profile>>
    ELSE SignatureProbe("Nsis", input.nsis, "Nullsoft")

\* the interpreter state the plugin call works on
VmState ==
    [stack |-> stack, variables |-> variables, structs |-> MOCK_STRUCTS,
     stored |-> STORED_REGISTERS, panic |-> FALSE]

\* the operands of a plugin call are pushed, first operand last
RECURSIVE PushAll(_, _)
PushAll(st, values) ==
    IF values = <<>> THEN st
    ELSE PushAll(Push(st, values[Len(values)]),
                 SubSeq(values, 1, Len(values) - 1))

\* a plugin call of the script: operands pushed, then evaluate
EvaluateCall(st, call) ==
    system_evaluate(PushAll(st, call.push), call.function)

\* the NsisState and the thread-locals as the plugin call left them; a
\* panic inside the call ends the analysis
AfterCall(st) ==
    /\ stack' = st.stack
    /\ variables' = st.variables
    /\ MOCK_STRUCTS' = st.structs
    /\ STORED_REGISTERS' = st.stored
    /\ ip' = ip + 1
    /\ UNCHANGED profile
    /\ pc' = IF st.panic THEN "Done" ELSE pc
    /\ analysis' = IF st.panic THEN Panicked ELSE analysis

\* one plugin call of the script: plugins/system/mod.rs evaluate
PluginStep ==
    /\ pc = "NsisScript"
    /\ ip <= Len(input.script)
    /\ AfterCall(EvaluateCall(VmState, input.script[ip]))
    /\ UNCHANGED <<input, pos, invoked, exe>>

\* the record Nsis::new builds from the registers the script left
NsisInstaller(in, registers) ==
    [architecture |-> from_machine(in.machine), type |-> "Nullsoft",
     silent |-> "/S", silent_with_progress |-> "/S", registers |-> registers]

NsisFinish ==
    /\ pc = "NsisScript"
    /\ ip > Len(input.script)
    /\ exe' = [kind |-> "Nullsoft",
               installers |-> <<NsisInstaller(input, variables)>>]
    /\ pc' = "Collect"
    /\ UNCHANGED <<input, pos, invoked, analysis, vm, statics, profile>>

\* exe.rs 53-98
BuildGeneric ==
    /\ pc = "Generic"
    /\ invoked' = Append(invoked, "Generic")
    /\ exe' = [kind |-> "Generic", installers |-> <<GenericInstaller(input)>>]
    /\ pc' = "Collect"
    /\ UNCHANGED <<input, pos, analysis, vm, statics, profile>>

(***************************************************************************)
(* Analyzer::new after Exe::new returned Ok (analyzer.rs 72-100).         *)
(***************************************************************************)
Collect ==
    /\ pc = "Collect"
    /\ analysis' =
          [status |-> "Ok", error |-> "",
           installers |->
              [i \in 1..Len(exe.installers) |->
                  ArchitectureHint(exe.installers[i], input.file_name)],
           icons |-> extract_pe_icons(input.resources, Bytes(input.data))]
    /\ pc' = "Done"
    /\ UNCHANGED <<input, pos, invoked, exe, vm, statics, profile>>

\* The next file is analysed on the same thread
NextFile ==
    /\ pc = "Done"
    /\ analysis.status # "Panic"
    /\ \E in \in Inputs :
         /\ input' = in
         /\ pc' = "Analyzer"
         /\ pos' = 0
         /\ invoked' = <<>>
         /\ exe' = NoExe
         /\ analysis' = Running
         /\ stack' = <<>>
         /\ variables' = EmptyMap
         /\ ip' = 1
    /\ UNCHANGED <<statics, profile>>

Next ==
    \/ AnalyzerNew
    \/ ProbeAdvancedInstaller
    \/ ProbeBurn
    \/ ProbeInno
    \/ ProbeNsis
    \/ PluginStep
    \/ NsisFinish
    \/ BuildGeneric
    \/ Collect
    \/ NextFile

Spec == Init /\ [][Next]_vars

(***************************************************************************)
(* Properties of the dispatcher.                                          *)
(***************************************************************************)
IsExe(in) == Route(Extension(in.file_name)) = "Exe"

ProbeOrder == <<"AdvancedInstaller", "Burn", "Inno", "Nsis", "Generic">>

\* the Exe variant a probe yields when it recognizes the file
KindOf(probe) == IF probe = "Nsis" THEN "Nullsoft" ELSE probe

\* what each probe makes of the current input: the set of its possible
\* outcomes, "Ok", "Not" (its own not-this-format error), "Err" or "Panic"
OutcomesOf(probe) ==
    CASE probe = "AdvancedInstaller" ->
            { LET r == AdvancedInstaller_new(Bytes(input.data), input.dd4, 0,
                                             b).res
              IN  CASE r = "NotAdvancedInstallerFile" -> "Not"
                    [] r = "Io" -> "Err"
                    [] OTHER -> r : b \in {"debug", "release"} }
      [] probe = "Burn" -> {input.burn}
      [] probe = "Inno" -> {input.inno}
      [] probe = "Nsis" -> {input.nsis}
      [] probe = "Generic" -> {"Ok"}

\* C1: for an executable the probes are invoked in the order
\* AdvancedInstaller, Burn, Inno, Nsis, with the Generic record built last;
\* every probe before the last invoked one declined, and once Exe::new has
\* returned a value it is the value of the last probe invoked, which
\* recognized the file (so nothing after the first recognizing probe ran).
C1_ProbeOrder ==
    IsExe(input) =>
        /\ Len(invoked) <= Len(ProbeOrder)
        /\ \A i \in 1..Len(invoked) : invoked[i] = ProbeOrder[i]
        /\ \A i \in 1..(Len(invoked) - 1) : OutcomesOf(invoked[i]) = {"Not"}
        /\ exe.kind # "None" =>
              /\ invoked # <<>>
              /\ exe.kind = KindOf(invoked[Len(invoked)])
              /\ "Ok" \in OutcomesOf(invoked[Len(invoked)])
              /\ pc \in {"Collect", "Done"}

C1_Witness ==
    /\ pc = "Collect"
    /\ exe.kind = "Inno"
    /\ invoked = <<"AdvancedInstaller", "Burn", "Inno">>
    /\ input.nsis = "Ok"

\* the Format Probes the specification names
NamedProbes ==
    {"AdvancedInstaller", "Burn", "Inno", "Nsis", "InstallShield", "Qt",
     "Squirrel", "SevenZipSfx"}

Range(seq) == {seq[i] : i \in 1..Len(seq)}

\* C2: an executable is classified Generic only after every named Format
\* Probe has been invoked on it (and declined).
C2_AllProbesBeforeGeneric ==
    exe.kind = "Generic" => NamedProbes \subseteq Range(invoked)

\* C3: a probe failing with an error other than its not-this-format error
\* is the last thing Exe::new does: the analysis is over with that error,
\* no Exe value, no record and no icon.
C3_FailureIsFatal ==
    \A i \in 1..Len(invoked) :
        (IsExe(input) /\ "Err" \in OutcomesOf(invoked[i])
            /\ analysis.status # "Panic") =>
            /\ i = Len(invoked)
            /\ pc = "Done"
            /\ analysis.status = "Err"
            /\ exe = NoExe
            /\ analysis.installers = <<>>
            /\ analysis.icons = {}

C3_Witness ==
    /\ pc = "Done"
    /\ invoked = <<"AdvancedInstaller", "Burn", "Inno">>
    /\ input.inno = "Err"
    /\ input.nsis = "Ok"
    /\ analysis.status = "Err"

NoSignature(in) ==
    /\ ~HasAdvMagic(Bytes(in.data))
    /\ in.burn = "Not"
    /\ in.inno = "Not"
    /\ in.nsis = "Not"

\* C5: a PE without technology-specific signature never ends in a hard
\* error: the analysis ends with exactly one Generic record.
C5_NoSignatureNeverFails ==
    (pc = "Done" /\ IsExe(input) /\ NoSignature(input)) =>
        /\ analysis.status = "Ok"
        /\ exe.kind = "Generic"
        /\ Len(analysis.installers) = 1

\* C6 (as stated): the record of a PE without signature has the
\* architecture of the PE machine type, whatever the file name.
C6_ArchitectureIsMachine ==
    (pc = "Done" /\ IsExe(input) /\ NoSignature(input)
        /\ analysis.status = "Ok") =>
        analysis.installers[1].architecture = from_machine(input.machine)

\* C6 (amended): the architecture is that of the PE machine type, except
\* for an x86 machine type whose file name contains "arm64" (then Arm64)
\* or else "x64" (then X64), compared in lower case.
C6_ArchitectureIsMachineOrHint ==
    (pc = "Done" /\ IsExe(input) /\ NoSignature(input)
        /\ analysis.status = "Ok") =>
        LET lower == to_ascii_lowercase(input.file_name)
            arch == analysis.installers[1].architecture
        IN  /\ Len(analysis.installers) = 1
            /\ from_machine(input.machine) # "X86" =>
                  arch = from_machine(input.machine)
            /\ (from_machine(input.machine) = "X86" /\ contains(lower, "arm64"))
                  => arch = "Arm64"
            /\ (from_machine(input.machine) = "X86" /\ ~contains(lower, "arm64")
                  /\ contains(lower, "x64")) => arch = "X64"
            /\ (from_machine(input.machine) = "X86" /\ ~contains(lower, "arm64")
                  /\ ~contains(lower, "x64")) => arch = "X86"

C6_Witness ==
    /\ pc = "Done"
    /\ NoSignature(input)
    /\ analysis.status = "Ok"
    /\ input.file_name = "arm64-x64.exe"
    /\ input.machine = "MACHINE_I386"
    /\ analysis.installers[1].architecture = "Arm64"

\* value contains keyword, letters compared without regard to ASCII case
ContainsIgnoringCase(value, keyword) ==
    \E off \in 0..(Len(value) - Len(keyword)) :
        \A j \in 1..Len(keyword) :
            LowerCh(Ch(value, off + j)) = LowerCh(Ch(keyword, j))

\* C7: the Generic record is of kind Exe exactly when a FileDescription or
\* OriginalFilename value contains one of the four keywords, compared
\* case-insensitively; otherwise it is Portable.
C7_GenericKind ==
    exe.kind = "Generic" =>
        LET list == input.version_info_list
            hit == \E i \in 1..Len(list) :
                      /\ list[i].key \in {"FileDescription", "OriginalFilename"}
                      /\ list[i].value # <<>>
                      /\ \E k \in {"installer", "setup", "7zs.sfx", "7zsd.sfx"} :
                            ContainsIgnoringCase(list[i].value[1], k)
        IN  /\ Len(exe.installers) = 1
            /\ exe.installers[1].type = IF hit THEN "Exe" ELSE "Portable"

C7_Witness ==
    /\ exe.kind = "Generic"
    /\ exe.installers[1].type = "Exe"
    /\ input.version_info_list
          = <<KV(FILE_DESCRIPTION, "App"), KV(ORIGINAL_FILENAME, "7ZS.SFX")>>

\* the last path component of name is "<stem>.<ext>" with a non-empty stem,
\* the extension compared without regard to ASCII case
HasExtension(name, ext) ==
    LET f == PathFileName(name)
    IN  /\ Len(f) > Len(ext) + 1
        /\ to_ascii_lowercase(SubSeq(f, Len(f) - Len(ext), Len(f)))
              = "." \o ext

\* the first parser or probe each route runs
FirstStepOf ==
    [msi |-> "Msi", msix |-> "Msix", appx |-> "Msix",
     msixbundle |-> "MsixBundle", appxbundle |-> "MsixBundle",
     zip |-> "Zip", exe |-> "AdvancedInstaller"]

\* C8: the route is chosen by the extension alone, compared
\* case-insensitively; any other or missing extension ends in the
\* unsupported-extension error with no parser or probe run and no record
\* or icon produced.
C8_RouteByExtension ==
    pc # "Analyzer" =>
        /\ \A e \in DOMAIN FirstStepOf :
              HasExtension(input.file_name, e) =>
                  \/ invoked # <<>> /\ invoked[1] = FirstStepOf[e]
                  \/ invoked = <<>> /\ pc = FirstStepOf[e]
        /\ (\A e \in DOMAIN FirstStepOf : ~HasExtension(input.file_name, e)) =>
              /\ pc = "Done"
              /\ analysis = Failed("UnsupportedExtension")
              /\ invoked = <<>>
              /\ exe = NoExe

C8_Witness ==
    /\ pc = "Done"
    /\ input.file_name = ".exe"
    /\ analysis = Failed("UnsupportedExtension")

(***************************************************************************)
(* Properties of the interpreter's scratch state.                         *)
(***************************************************************************)
\* C9: when an analysis starts, the register file, the operand stack, the
\* struct side table MOCK_STRUCTS and the snapshot STORED_REGISTERS are all
\* empty, whatever earlier analyses evaluated.
C9_ScratchStateEmptyAtStart ==
    pc = "Analyzer" =>
        /\ stack = <<>>
        /\ variables = EmptyMap
        /\ MOCK_STRUCTS = EmptyMap
        /\ STORED_REGISTERS = <<>>

\* the interpreter state of a thread that has analysed nothing yet
FreshVm ==
    [stack |-> <<>>, variables |-> EmptyMap, structs |-> EmptyMap,
     stored |-> <<>>, panic |-> FALSE]

\* the script evaluated call by call, up to a panic
RECURSIVE RunScript(_, _, _)
RunScript(st, script, i) ==
    IF i > Len(script) \/ st.panic THEN st
    ELSE RunScript(EvaluateCall(st, script[i]), script, i + 1)

\* C10: the outcome of analysing a file recognized as NSIS is the one the
\* same file gives on a thread that analysed nothing before: the same
\* records, or the same crash.
C10_SameResultAfterAnyHistory ==
    (pc = "Done" /\ IsExe(input) /\ invoked # <<>>
        /\ invoked[Len(invoked)] = "Nsis" /\ input.nsis = "Ok") =>
        LET fresh == RunScript(FreshVm, input.script, 1)
        IN  /\ (analysis.status = "Panic") = fresh.panic
            /\ analysis.status = "Ok" =>
                  analysis.installers =
                     <<ArchitectureHint(
                          NsisInstaller(input, fresh.variables),
                          input.file_name)>>

(***************************************************************************)
(* InstallShield probe (installshield/mod.rs, file.rs).  Exe::new does    *)
(* not call it; it is driven directly, on a reader over the file and the  *)
(* PE model of the file.                                                  *)
(***************************************************************************)
\* the characters of the codes 32..126 in code order; the grave accent
\* (code 96) cannot be written in a string and stands as "?"
ASCII ==
    " !\"#$%&'()*+,-./0123456789:;<=>?@ABCDEFGHIJKLMNOPQRSTUVWXYZ[\\]^_?abcdefghijklmnopqrstuvwxyz{|}~"

\* char of a code: line feed, printable ASCII, otherwise the replacement
\* character of a lossy decode (written "?")
Chr(b) ==
    IF b = 10 THEN "\n"
    ELSE IF b >= 32 /\ b <= 126 THEN Ch(ASCII, b - 31)
    ELSE "?"

\* code of a char
Ord(c) ==
    IF c = "\n" THEN 10
    ELSE MinOf({i \in 1..Len(ASCII) : Ch(ASCII, i) = c}) + 31

\* str::bytes of an ASCII string
StrBytes(s) == [i \in 1..Len(s) |-> Ord(Ch(s, i))] \o <<>>

\* the string of a sequence of codes
RECURSIVE CodesToString(_, _, _)
CodesToString(b, lo, hi) ==
    IF lo > hi THEN ""
    ELSE IF lo = hi THEN Chr(b[lo])
    ELSE CodesToString(b, lo, (lo + hi) \div 2)
         \o CodesToString(b, (lo + hi) \div 2 + 1, hi)

\* String::from_utf8_lossy / to_string_lossy
from_utf8_lossy(b) == CodesToString(b, 1, Len(b))

\* index of the first zero at or after 0-based position p, 0 when none
\* (1-based index into data)
FirstNul(data, p) ==
    LET hits == {i \in (p + 1)..Len(data) : data[i] = 0}
    IN  IF hits = {} THEN 0 ELSE MinOf(hits)

\* Cursor::seek(SeekFrom::Current(size)) for a u32 size: the position
\* saturates at OUT_OF_RANGE, where no read succeeds
Advance(p, n) == IF p >= OUT_OF_RANGE - n THEN OUT_OF_RANGE ELSE p + n

\* read_u32::<LittleEndian> of the four bytes at offset off
U32At(data, off) == AsUnsigned(I32At(data, off))

\* installshield/file.rs File
File(name, encoded_flags, size, offset) ==
    [name |-> name, encoded_flags |-> encoded_flags, size |-> size,
     offset |-> offset]

FLAG_ENCODED == 2
FLAG_CHUNKED == 4
XOR_MAGIC == <<19, 53, 134, 7>>
CHUNK_SIZE == 1024

\* u8::rotate_left(4)
rotate_left4(b) == (b % 16) * 16 + b \div 16

\* the key of File::decrypt: name.bytes() XOR the magic, cyclically
DecryptKey(name) ==
    [i \in 1..Len(name) |->
        BitXor(Ord(Ch(name, i)), XOR_MAGIC[((i - 1) % Len(XOR_MAGIC)) + 1])]
    \o <<>>

\* decode_slice(data, key, key_offset)
decode_slice(data, key, key_offset) ==
    [i \in 1..Len(data) |->
        255 - BitXor(key[((key_offset + i - 1) % Len(key)) + 1],
                     rotate_left4(data[i]))]
    \o <<>>

\* variant: the key runs on over the chunk boundaries
DecodeChunks_KeyRunsOn(data, key) == decode_slice(data, key, 0)

\* slice::chunks_mut(CHUNK_SIZE) with decode_slice(chunk, key, 0) on each
RECURSIVE DecodeChunks(_, _)
DecodeChunks(data, key) ==
    IF Len(data) <= CHUNK_SIZE THEN decode_slice(data, key, 0)
    ELSE decode_slice(SubSeq(data, 1, CHUNK_SIZE), key, 0)
         \o DecodeChunks(SubSeq(data, CHUNK_SIZE + 1, Len(data)), key)

\* the decode step of File::decrypt (file.rs 45-51)
Decode(data, key, encoded_flags) ==
    IF BitAnd(encoded_flags, FLAG_CHUNKED) # 0 THEN DecodeChunks(data, key)
    ELSE decode_slice(data, key, 0)

\* sum of d[i] over lo..hi
RECURSIVE ByteSum(_, _, _)
ByteSum(d, lo, hi) ==
    IF lo > hi THEN 0
    ELSE IF lo = hi THEN d[lo]
    ELSE ByteSum(d, lo, (lo + hi) \div 2) + ByteSum(d, (lo + hi) \div 2 + 1, hi)

\* sum of d[i] * (w - i) over lo..hi
RECURSIVE WeightedSum(_, _, _, _)
WeightedSum(d, w, lo, hi) ==
    IF lo > hi THEN 0
    ELSE IF lo = hi THEN d[lo] * (w - lo)
    ELSE WeightedSum(d, w, lo, (lo + hi) \div 2)
         + WeightedSum(d, w, (lo + hi) \div 2 + 1, hi)

\* Adler-32 of a byte string as the pair <<a, b>> of its 16-bit halves
Adler32(d) ==
    << (1 + ByteSum(d, 1, Len(d))) % 65521,
       (Len(d) + WeightedSum(d, Len(d) + 1, 1, Len(d))) % 65521 >>

\* the Adler-32 a zlib stream carries after n stored bytes, big-endian
ZlibTrailer(d, n) ==
    << d[10 + n] * 256 + d[11 + n], d[8 + n] * 256 + d[9 + n] >>

\* ZlibDecoder::read_to_end: <<>> on an error, <<bytes>> otherwise.  The
\* files of the model hold zlib streams of one final stored block only:
\* header, 01, LEN, NLEN, the bytes, Adler-32.
ZlibInflate(d) ==
    IF Len(d) < 11 THEN <<>>
    ELSE IF d[1] % 16 # 8 \/ (d[1] * 256 + d[2]) % 31 # 0
            \/ (d[2] \div 32) % 2 # 0 THEN <<>>
    ELSE IF d[3] # 1 THEN <<>>
    ELSE IF d[4] + d[6] # 255 \/ d[5] + d[7] # 255 THEN <<>>
    ELSE IF Len(d) < 11 + U16At(d, 3) THEN <<>>
    ELSE IF ZlibTrailer(d, U16At(d, 3))
            # Adler32(SubSeq(d, 8, 7 + U16At(d, 3))) THEN <<>>
    ELSE <<SubSeq(d, 8, 7 + U16At(d, 3))>>

\* Option::or / or_else
OrElse(a, b) == IF a # <<>> THEN a ELSE b

\* the bytes File::decrypt hands back once decoded (file.rs 53-61)
Inflated(decoded) == OrElse(ZlibInflate(decoded), <<decoded>>)[1]

\* File::decrypt: [res |-> "Ok" | "Io", value |-> <<>> | <<bytes>>]
decrypt(data, f) ==
    IF BitAnd(f.encoded_flags, FLAG_ENCODED + FLAG_CHUNKED) = 0
    THEN [res |-> "Ok", value |-> <<>>]
    ELSE IF ~CanRead(data, SeekStart(f.offset), f.size)
    THEN [res |-> "Io", value |-> <<>>]
    ELSE IF f.name = "" THEN [res |-> "Ok", value |-> <<>>]
    ELSE [res |-> "Ok",
          value |-> <<Inflated(Decode(ReadBytes(data, f.offset, f.size),
                                      DecryptKey(f.name), f.encoded_flags))>>]

\* CStr::from_bytes_until_nul(raw): <<>> without a NUL, else <<bytes before it>>
from_bytes_until_nul(raw) ==
    IF FirstNul(raw, 0) = 0 THEN <<>>
    ELSE <<SubSeq(raw, 1, FirstNul(raw, 0) - 1)>>

NB10 == <<78, 66, 49, 48>>
MAGIC_PLAIN == "InstallShield"
MAGIC_STREAM == "ISSetupStream"

\* Header of the kind the magic names (mod.rs 316-329)
HeaderOfMagic(data, p, magic) ==
    IF magic = <<>> THEN [res |-> "NotInstallShieldFile"]
    ELSE IF from_utf8_lossy(magic[1]) \notin {MAGIC_PLAIN, MAGIC_STREAM}
    THEN [res |-> "NotInstallShieldFile"]
    ELSE [res |-> "Ok", pos |-> p + 46,
          kind |-> IF from_utf8_lossy(magic[1]) = MAGIC_PLAIN
                   THEN "Plain" ELSE "SetupStream",
          num_files |-> U16At(data, p + 14),
          header_type |-> U32At(data, p + 16)]

\* the fields of Header::read once the cursor stands at the magic (mod.rs
\* 311-329): the kind is decided after the 20 bytes have been read
HeaderAt(data, p) ==
    IF ~CanRead(data, p, 20) THEN [res |-> "Io"]
    ELSE HeaderOfMagic(data, p, from_bytes_until_nul(ReadBytes(data, p, 14)))

\* Header::read: an NB10 record (signature, 12 bytes, a NUL-terminated
\* string) is skipped first (mod.rs 300-309)
Header_read(data, p) ==
    IF ~CanRead(data, p, 4) THEN [res |-> "Io"]
    ELSE IF ReadBytes(data, p, 4) # NB10 THEN HeaderAt(data, p)
    ELSE IF FirstNul(data, p + 16) = 0 THEN [res |-> "Io"]
    ELSE HeaderAt(data, FirstNul(data, p + 16))

\* result of a file-table parser
TableOk(p, files) == [res |-> "Ok", pos |-> p, files |-> files]
TableIo(files) == [res |-> "Io", pos |-> 0, files |-> files]

\* the name of a plain entry: the bytes before the first NUL, "" without one
PlainName(raw_name) ==
    IF from_bytes_until_nul(raw_name) = <<>> THEN ""
    ELSE from_utf8_lossy(from_bytes_until_nul(raw_name)[1])

\* parse_plain_entries: count entries of 260 name bytes, flags, 4 reserved,
\* size, 40 reserved, then the data
RECURSIVE parse_plain_entries(_, _, _, _)
parse_plain_entries(data, p, count, files) ==
    IF count = 0 THEN TableOk(p, files)
    ELSE IF ~CanRead(data, p, 272) THEN TableIo(files)
    ELSE parse_plain_entries(
            data, Advance(p + 312, U32At(data, p + 268)), count - 1,
            Append(files, File(PlainName(ReadBytes(data, p, 260)),
                               U32At(data, p + 260), U32At(data, p + 268),
                               p + 312)))

\* code units of UTF-16LE bytes (an odd last byte is dropped)
Utf16Units(b) ==
    [i \in 1..(Len(b) \div 2) |-> b[2 * i - 1] + 256 * b[2 * i]] \o <<>>

\* UTF_16LE.decode(b).0 as a string
Utf16String(b) == from_utf8_lossy(Utf16Units(b))

\* UTF_16LE.decode(buffer).0.trim_matches('\0')
StreamName(buffer) == from_utf8_lossy(TrimNul(Utf16Units(buffer)))

\* length of the fixed part of a stream entry (mod.rs 369-376)
StreamEntryLen(header_type) == IF header_type = 4 THEN 48 ELSE 24

\* parse_stream_entries: count entries of name length, flags, 2 reserved,
\* size, 10 reserved (and 24 attribute bytes for header type 4), the name
\* in UTF-16LE, then the data
RECURSIVE parse_stream_entries(_, _, _, _, _)
\* one entry whose name of filename_len bytes starts at name_pos
StreamEntry(data, p, name_pos, filename_len, count, header_type, files) ==
    IF filename_len # 0 /\ ~CanRead(data, name_pos, filename_len)
    THEN TableIo(files)
    ELSE parse_stream_entries(
            data, Advance(name_pos + filename_len, U32At(data, p + 10)),
            count - 1, header_type,
            Append(files,
                   File(StreamName(ReadBytes(data, name_pos, filename_len)),
                        U32At(data, p + 4), U32At(data, p + 10),
                        name_pos + filename_len)))

parse_stream_entries(data, p, count, header_type, files) ==
    IF count = 0 THEN TableOk(p, files)
    ELSE IF ~CanRead(data, p, 14) THEN TableIo(files)
    ELSE StreamEntry(data, p, p + StreamEntryLen(header_type),
                     U32At(data, p), count, header_type, files)

\* read_ascii_strz / read_utf16le_strz: <<ok, string, position afterwards>>
read_ascii_strz(data, p) ==
    IF p >= Len(data) \/ FirstNul(data, p) = 0 THEN <<FALSE, "", 0>>
    ELSE << TRUE, from_utf8_lossy(SubSeq(data, p + 1, FirstNul(data, p) - 1)),
            FirstNul(data, p) >>

\* number of non-zero code units before the first zero unit at p, -1 when
\* the data ends first
Utf16Run(data, p) ==
    LET hits == {n \in 0..((Len(data) - p) \div 2 - 1) :
                    data[p + 2 * n + 1] = 0 /\ data[p + 2 * n + 2] = 0}
    IN  IF p >= Len(data) \/ hits = {} THEN -1 ELSE MinOf(hits)

read_utf16le_strz(data, p) ==
    IF Utf16Run(data, p) < 0 THEN <<FALSE, "", 0>>
    ELSE << TRUE, Utf16String(SubSeq(data, p + 1, p + 2 * Utf16Run(data, p))),
            p + 2 * Utf16Run(data, p) + 2 >>

\* the reader of a string table: "ascii" or "utf16"
ReadStrz(read, data, p) ==
    IF read = "ascii" THEN read_ascii_strz(data, p)
    ELSE read_utf16le_strz(data, p)

\* str::parse::<u32>().unwrap_or(0)
ParseSize(s) == IF parse_usize(s) = <<>> THEN 0 ELSE parse_usize(s)[1]

\* parse_installscript_entries: names, paths, versions and sizes as
\* NUL-terminated strings until count entries, an empty name or the end
RECURSIVE parse_installscript_entries(_, _, _, _, _)
\* the size string z read: the data follow it (mod.rs 415-423)
ScriptEntrySize(data, name, z, count, read, files) ==
    IF ~z[1] THEN TableIo(files)
    ELSE parse_installscript_entries(
            data, Advance(z[3], ParseSize(z[2])), count, read,
            Append(files, File(name, 0, ParseSize(z[2]), z[3])))

\* the version string v read
ScriptEntryVersion(data, name, v, count, read, files) ==
    IF ~v[1] THEN TableIo(files)
    ELSE ScriptEntrySize(data, name, ReadStrz(read, data, v[3]), count, read,
                         files)

\* the path string q read
ScriptEntryPath(data, name, q, count, read, files) ==
    IF ~q[1] THEN TableIo(files)
    ELSE ScriptEntryVersion(data, name, ReadStrz(read, data, q[3]), count,
                            read, files)

\* the name string n read
ScriptEntryName(data, n, count, read, files) ==
    IF ~n[1] THEN TableIo(files)
    ELSE IF n[2] = "" THEN TableOk(n[3], files)
    ELSE ScriptEntryPath(data, n[2], ReadStrz(read, data, n[3]), count, read,
                         files)

parse_installscript_entries(data, p, count, read, files) ==
    IF Len(files) >= count \/ p >= Len(data) THEN TableOk(p, files)
    ELSE ScriptEntryName(data, ReadStrz(read, data, p), count, read, files)

UTF8_BOM == <<239, 187, 191>>
UTF16LE_BOM == <<255, 254>>

\* The text of a payload: a byte-order mark decides, else UTF-8 when the
\* bytes are valid UTF-8, else UTF-16LE.  The files of the model hold no
\* multi-byte UTF-8 sequence, so a byte above 127 is invalid UTF-8.
DecodeText(b) ==
    IF Len(b) >= 3 /\ SubSeq(b, 1, 3) = UTF8_BOM
    THEN from_utf8_lossy(SubSeq(b, 4, Len(b)))
    ELSE IF Len(b) >= 2 /\ SubSeq(b, 1, 2) = UTF16LE_BOM
    THEN Utf16String(SubSeq(b, 3, Len(b)))
    ELSE IF \A i \in 1..Len(b) : b[i] < 128 THEN from_utf8_lossy(b)
    ELSE Utf16String(b)

\* File::read_text: [res |-> "Ok" | "Io", text |-> <<>> | <<string>>]; the
\* bytes are those decrypt returns, or the stored bytes when it returns None
TextOf(data, f, decrypted) ==
    IF decrypted.res = "Io" THEN [res |-> "Io", text |-> <<>>]
    ELSE IF decrypted.value # <<>>
    THEN [res |-> "Ok", text |-> <<DecodeText(decrypted.value[1])>>]
    ELSE IF ~CanRead(data, SeekStart(f.offset), f.size)
    THEN [res |-> "Io", text |-> <<>>]
    ELSE [res |-> "Ok",
          text |-> <<DecodeText(ReadBytes(data, f.offset, f.size))>>]

read_text(data, f) == TextOf(data, f, decrypt(data, f))

\* str::eq_ignore_ascii_case
eq_ignore_ascii_case(a, b) == to_ascii_lowercase(a) = to_ascii_lowercase(b)

\* files.iter().find(..): index of the first entry of that name, 0 if none
FirstMatch(files, name) ==
    LET hits == {i \in 1..Len(files) :
                    eq_ignore_ascii_case(files[i].name, name)}
    IN  IF hits = {} THEN 0 ELSE MinOf(hits)

\* files.iter().rev().find(..): index of the last entry of that name
LastMatch(files, name) ==
    LET hits == {i \in 1..Len(files) :
                    eq_ignore_ascii_case(files[i].name, name)}
    IN  IF hits = {} THEN 0 ELSE MaxOf(hits)

(***************************************************************************)
(* The payload parsers.  serini and quick_xml are libraries outside the   *)
(* repository; they are modelled on the texts of the files analysed:      *)
(* sections of key=value lines, and elements found by their tag.  A       *)
(* struct field that is no Option is required: the text does not parse    *)
(* without it.                                                            *)
(***************************************************************************)
\* the lines of a text
RECURSIVE SplitLines(_)
SplitLines(text) ==
    IF find(text, "\n") = 0 THEN <<text>>
    ELSE <<SubSeq(text, 1, find(text, "\n") - 1)>>
         \o SplitLines(SubSeq(text, find(text, "\n") + 1, Len(text)))

IniKey(section, key) == section \o "." \o key

\* one line folded into <<current section, map of Section.Key to value>>
IniLine(l, acc) ==
    IF l = "" \/ starts_with(l, ";") \/ starts_with(l, "#") THEN acc
    ELSE IF starts_with(l, "[") /\ ends_with(l, "]")
    THEN <<SubSeq(l, 2, Len(l) - 1), MapPut(acc[2], SubSeq(l, 2, Len(l) - 1), "")>>
    ELSE IF find(l, "=") = 0 THEN acc
    ELSE << acc[1],
            MapPut(acc[2],
                   IniKey(acc[1], trim(SubSeq(l, 1, find(l, "=") - 1))),
                   trim(SubSeq(l, find(l, "=") + 1, Len(l)))) >>

RECURSIVE IniFold(_, _, _)
IniFold(lines, i, acc) ==
    IF i > Len(lines) THEN acc[2]
    ELSE IniFold(lines, i + 1, IniLine(trim(lines[i]), acc))

\* the sections and keys of an INI text
IniMap(text) == IniFold(SplitLines(text), 1, <<"", EmptyMap>>)

\* a field of type Option<String>
IniOption(ini, section, key) ==
    IF IniKey(section, key) \in DOMAIN ini THEN <<ini[IniKey(section, key)]>>
    ELSE <<>>

IniHasAll(ini, section, keys) ==
    section \in DOMAIN ini /\ \A k \in keys : IniKey(section, k) \in DOMAIN ini

\* the fields of setup_ini.rs that are no Option
INFO_REQUIRED == {"Name", "Version", "DiskSpace"}
STARTUP_REQUIRED ==
    {"CmdLine", "DoMaintenance", "DotNetOptionalInstallIfSilent",
     "EnableLangDlg", "LauncherName", "LogResults", "OnUpgrade",
     "PackageCode", "PackageName", "Product", "ProductCode",
     "ProductVersion", "ScriptDriven", "ScriptVer", "SuppressWrongOS"}
LANGUAGES_REQUIRED == {"RequireExactLangMatch", "RTLLangs", "Default", "Supported"}
APPLICATION_REQUIRED == {"Name", "Version", "Company"}

\* the Startup section as installers() reads it: every field an Option
Startup(ini) ==
    [company_name |-> IniOption(ini, "Startup", "CompanyName"),
     product |-> IniOption(ini, "Startup", "Product"),
     product_code |-> IniOption(ini, "Startup", "ProductCode"),
     product_version |-> IniOption(ini, "Startup", "ProductVersion"),
     script_driven |-> IniOption(ini, "Startup", "ScriptDriven"),
     upgrade_code |-> IniOption(ini, "Startup", "UpgradeCode")]

SetupIniOf(ini) ==
    IF IniHasAll(ini, "Info", INFO_REQUIRED)
       /\ IniHasAll(ini, "Startup", STARTUP_REQUIRED)
       /\ IniHasAll(ini, "Languages", LANGUAGES_REQUIRED)
       /\ ("ISSetupPrerequisites" \in DOMAIN ini
              => IniKey("ISSetupPrerequisites", "PreReq0") \in DOMAIN ini)
    THEN <<[startup |-> Startup(ini),
            languages |-> [default |-> ini[IniKey("Languages", "Default")]]]>>
    ELSE <<>>

\* serini::from_str::<SetupIni>(content).ok()
SetupIni(content) == SetupIniOf(IniMap(content))

SetupIssOf(ini) ==
    IF IniHasAll(ini, "Application", APPLICATION_REQUIRED)
    THEN <<[application |->
              [name |-> ini[IniKey("Application", "Name")],
               version |-> ini[IniKey("Application", "Version")],
               company |-> ini[IniKey("Application", "Company")]]]>>
    ELSE <<>>

\* serini::from_str::<SetupIss>(content).ok()
SetupIss(content) == SetupIssOf(IniMap(content))

\* the members of a set of integers in ascending order
RECURSIVE Ascending(_)
Ascending(S) ==
    IF S = {} THEN <<>> ELSE <<MinOf(S)>> \o Ascending(S \ {MinOf(S)})

\* where the elements <tag ...> start in a text, in document order
TagStarts(text, tag) ==
    Ascending({i \in 1..(Len(text) - Len(tag) - 1) :
                  SubSeq(text, i, i + Len(tag) + 1) = "<" \o tag \o " "})

\* the start tag that begins at index i, up to its closing ">"
TagAt(text, i) ==
    IF FindFrom(text, ">", i) = 0 THEN SubSeq(text, i, Len(text))
    ELSE SubSeq(text, i, FindFrom(text, ">", i))

\* where the value of an attribute starts in a start tag, 0 if it has none
AttrStart(tag_text, attr) ==
    IF find(tag_text, " " \o attr \o "=\"") = 0 THEN 0
    ELSE find(tag_text, " " \o attr \o "=\"") + Len(attr) + 3

\* an attribute of a start tag: <<>> or <<value>>
Attr(tag_text, attr) ==
    IF AttrStart(tag_text, attr) = 0 THEN <<>>
    ELSE IF FindFrom(tag_text, "\"", AttrStart(tag_text, attr)) = 0 THEN <<>>
    ELSE <<SubSeq(tag_text, AttrStart(tag_text, attr),
                  FindFrom(tag_text, "\"", AttrStart(tag_text, attr)) - 1)>>

\* the content of the first element <tag>...</tag>: <<>> or <<text>>
ElementText(text, tag) ==
    IF find(text, "<" \o tag \o ">") = 0 THEN <<>>
    ELSE IF FindFrom(text, "</" \o tag \o ">", find(text, "<" \o tag \o ">")) = 0
    THEN <<>>
    ELSE <<SubSeq(text, find(text, "<" \o tag \o ">") + Len(tag) + 2,
                  FindFrom(text, "</" \o tag \o ">",
                           find(text, "<" \o tag \o ">")) - 1)>>

\* the element <Language lcid=...> that starts at index i, to its end tag
LanguageAt(text, i) ==
    [lcid |-> Attr(TagAt(text, i), "lcid"),
     strings |-> IF FindFrom(text, "</Language>", i) = 0 THEN ""
                 ELSE SubSeq(text, i, FindFrom(text, "</Language>", i) - 1)]

\* Language.strings.get(key): the text of the child element named key
StringsGet(lang, key) == ElementText(lang.strings, key)

SetPropertyAt(text, i) ==
    [name |-> Attr(TagAt(text, i), "Name"),
     value |-> Attr(TagAt(text, i), "Value")]

XmlLanguages(text) ==
    [k \in 1..Len(TagStarts(text, "Language")) |->
        LanguageAt(text, TagStarts(text, "Language")[k])]

XmlProperties(text) ==
    [k \in 1..Len(TagStarts(text, "SetProperty")) |->
        SetPropertyAt(text, TagStarts(text, "SetProperty")[k])]

\* the fields of SetupXml, each <<>> when the text lacks it
XmlFields(text, arp) ==
    [suite_id |-> Attr(TagAt(text, find(text, "<")), "SuiteId"),
     version |-> IF arp = <<>> THEN <<>> ELSE ElementText(arp[1], "Version"),
     publisher |-> IF arp = <<>> THEN <<>> ELSE ElementText(arp[1], "Publisher"),
     display_name |->
        IF arp = <<>> THEN <<>> ELSE ElementText(arp[1], "DisplayName"),
     default |->
        IF TagStarts(text, "LanguageSelection") = <<>> THEN <<>>
        ELSE Attr(TagAt(text, TagStarts(text, "LanguageSelection")[1]),
                  "Default")]

SetupXmlOf(text, f, languages, properties) ==
    IF find(text, "<") = 0 \/ f.suite_id = <<>> \/ f.version = <<>>
       \/ f.publisher = <<>> \/ f.display_name = <<>> \/ f.default = <<>>
       \/ find(text, "<Languages>") = 0 \/ languages = <<>>
       \/ properties = <<>>
       \/ (\E k \in 1..Len(languages) : languages[k].lcid = <<>>)
       \/ (\E k \in 1..Len(properties) : properties[k].name = <<>>)
    THEN <<>>
    ELSE <<[suite_id |-> f.suite_id[1],
            arp_info |-> [version |-> f.version[1],
                          publisher |-> f.publisher[1],
                          display_name |-> f.display_name[1]],
            language_selection |-> [default |-> f.default[1]],
            languages |->
               [k \in 1..Len(languages) |->
                   [lcid |-> languages[k].lcid[1],
                    strings |-> languages[k].strings]],
            set_property |->
               [k \in 1..Len(properties) |->
                   [name |-> properties[k].name[1],
                    value |-> properties[k].value]]]>>

\* quick_xml::de::from_str::<SetupXml>(content).ok()
SetupXml(content) ==
    SetupXmlOf(content, XmlFields(content, ElementText(content, "ARPInfo")),
               XmlLanguages(content), XmlProperties(content))

\* the closures InstallShield::new hands to find_and_parse (mod.rs 98-108),
\* each named by the type it deserializes
ParseAs(parse, content) ==
    CASE parse = "SetupIni" -> SetupIni(content)
      [] parse = "SetupIss" -> SetupIss(content)
      [] parse = "SetupXml" -> SetupXml(content)

\* find_and_parse: the parsed text of the entry chosen, <<>> when there is
\* none, when it cannot be read or when its text does not parse
ParseText(read, parse) ==
    IF read.res # "Ok" \/ read.text = <<>> THEN <<>>
    ELSE ParseAs(parse, read.text[1])

ParseEntry(files, data, k, parse) ==
    IF k = 0 THEN <<>> ELSE ParseText(read_text(data, files[k]), parse)

find_and_parse(files, data, name, parse) ==
    ParseEntry(files, data, LastMatch(files, name), parse)

\* iter().position(..) of the first property of that name, 0 if none
FirstProperty(properties, name) ==
    IF {k \in 1..Len(properties) : properties[k].name = name} = {} THEN 0
    ELSE MinOf({k \in 1..Len(properties) : properties[k].name = name})

\* SetupXml::get_property: the value of the first property of that name
get_property(xml, name) ==
    IF FirstProperty(xml.set_property, name) = 0 THEN <<>>
    ELSE xml.set_property[FirstProperty(xml.set_property, name)].value

\* the first language with the lcid given, 0 if none
FirstLanguage(languages, lcid) ==
    IF {k \in 1..Len(languages) : languages[k].lcid = lcid} = {} THEN 0
    ELSE MinOf({k \in 1..Len(languages) : languages[k].lcid = lcid})

\* version_info.get(key): <<>> or <<value>>
VersionInfoGet(version_info, key) ==
    IF key \in DOMAIN version_info THEN <<version_info[key]>> ELSE <<>>

IS_INTERNAL_DESCRIPTION == "ISInternalDescription"
PRODUCT_NAME == "ProductName"

\* the entries after a header (mod.rs 86-94)
HeaderEntries(data, header) ==
    IF header.res # "Ok" THEN [res |-> header.res, pos |-> 0, files |-> <<>>]
    ELSE IF header.kind = "Plain"
    THEN parse_plain_entries(data, header.pos, header.num_files, <<>>)
    ELSE parse_stream_entries(data, header.pos, header.num_files,
                              header.header_type, <<>>)

\* the file table of InstallShield::new (mod.rs 71-95), cursor at p
InstallShieldFiles(data, version_info, p) ==
    IF VersionInfoGet(version_info, IS_INTERNAL_DESCRIPTION) # <<>>
       /\ starts_with(VersionInfoGet(version_info, IS_INTERNAL_DESCRIPTION)[1],
                      "InstallScript")
    THEN IF ~CanRead(data, p, 4) THEN TableIo(<<>>)
         ELSE parse_installscript_entries(data, p + 4, U32At(data, p),
                                          "utf16", <<>>)
    ELSE IF VersionInfoGet(version_info, PRODUCT_NAME) = <<"InstallShield (R)">>
    THEN parse_installscript_entries(data, p, OUT_OF_RANGE, "ascii", <<>>)
    ELSE HeaderEntries(data, Header_read(data, p))

\* what InstallShield::new returns
InstallShieldErr(error) ==
    [res |-> error, architecture |-> "", setup_ini |-> <<>>,
     setup_iss |-> <<>>, setup_xml |-> <<>>]

\* variant: the value is built whether or not a payload was found
Confirmed_WithoutPayload(machine, setup_ini, setup_iss, setup_xml) ==
    [res |-> "Ok", architecture |-> from_machine(machine),
     setup_ini |-> setup_ini, setup_iss |-> setup_iss,
     setup_xml |-> setup_xml]

\* mod.rs 110-119
Confirmed(machine, setup_ini, setup_iss, setup_xml) ==
    IF setup_ini = <<>> /\ setup_iss = <<>> /\ setup_xml = <<>>
    THEN InstallShieldErr("NotInstallShieldFile")
    ELSE [res |-> "Ok", architecture |-> from_machine(machine),
          setup_ini |-> setup_ini, setup_iss |-> setup_iss,
          setup_xml |-> setup_xml]

\* the three payloads looked up in a file table (mod.rs 98-119)
InstallShieldOf(data, machine, table) ==
    IF table.res # "Ok" THEN InstallShieldErr(table.res)
    ELSE Confirmed(machine,
                   find_and_parse(table.files, data, "setup.ini", "SetupIni"),
                   find_and_parse(table.files, data, "setup.iss", "SetupIss"),
                   find_and_parse(table.files, data, "Setup.xml", "SetupXml"))

\* InstallShield::new(reader, pe); overlay is pe.overlay.offset
InstallShield_new(data, overlay, version_info, machine) ==
    IF overlay = <<>> THEN InstallShieldErr("NotInstallShieldFile")
    ELSE InstallShieldOf(
            data, machine,
            InstallShieldFiles(data, version_info, SeekStart(overlay[1])))

(***************************************************************************)
(* InstallShield::installers (mod.rs 150-284) and return_codes.rs.        *)
(***************************************************************************)
\* str::replace
RECURSIVE replace(_, _, _)
replace(s, from, to) ==
    IF find(s, from) = 0 THEN s
    ELSE SubSeq(s, 1, find(s, from) - 1) \o to
         \o replace(SubSeq(s, find(s, from) + Len(from), Len(s)), from, to)

\* str::trim_start_matches(prefix)
RECURSIVE trim_start_matches(_, _)
trim_start_matches(s, prefix) ==
    IF starts_with(s, prefix)
    THEN trim_start_matches(SubSeq(s, Len(prefix) + 1, Len(s)), prefix)
    ELSE s

HEX == "0123456789abcdef"

\* value of a string of digits of the radix
RECURSIVE RadixValue(_, _, _)
RadixValue(s, radix, acc) ==
    IF s = "" THEN acc
    ELSE RadixValue(SubSeq(s, 2, Len(s)), radix,
                    acc * radix + IndexOf(HEX, LowerCh(Ch(s, 1))) - 1)

\* u16::from_str_radix(s, radix).ok(): digits of the radix after an
\* optional '+', the value at most 65535
from_str_radix16(s, radix) ==
    LET d == trim_start_matches(
                 IF starts_with(s, "+") THEN SubSeq(s, 2, Len(s)) ELSE s, "0")
    IN  IF s = "" \/ s = "+" THEN <<>>
        ELSE IF \E i \in 1..Len(s) :
                    ~(i = 1 /\ Ch(s, 1) = "+")
                    /\ ~(IndexOf(HEX, LowerCh(Ch(s, i))) \in 1..radix)
        THEN <<>>
        ELSE IF Len(d) > 5 THEN <<>>
        ELSE IF RadixValue(d, radix, 0) > 65535 THEN <<>>
        ELSE <<RadixValue(d, radix, 0)>>

\* utils::RELATIVE_PROGRAM_FILES_64
RELATIVE_PROGRAM_FILES_64 == "%ProgramFiles%"

\* Scope::from_install_directory of winget_types: a directory below a
\* per-user folder is User scope, any other directory gives no scope
from_install_directory(dir) ==
    IF contains(dir, "%LocalAppData%") \/ contains(dir, "%AppData%")
    THEN <<"User">> ELSE <<>>

COMMON_CODES ==
    { <<-1, "CancelledByUser">>, <<1, "InvalidParameter">>,
      <<1150, "SystemNotSupported">>, <<1201, "DiskFull">>,
      <<1203, "InvalidParameter">>, <<3010, "RebootRequiredToFinish">> }

MSI_CODES ==
    { <<1601, "ContactSupport">>, <<1602, "CancelledByUser">>,
      <<1618, "InstallInProgress">>, <<1623, "SystemNotSupported">>,
      <<1625, "BlockedByPolicy">>, <<1628, "InvalidParameter">>,
      <<1633, "SystemNotSupported">>, <<1638, "AlreadyInstalled">>,
      <<1639, "InvalidParameter">>, <<1640, "BlockedByPolicy">>,
      <<1641, "RebootInitiated">>, <<1643, "BlockedByPolicy">>,
      <<1644, "BlockedByPolicy">>, <<1649, "BlockedByPolicy">>,
      <<1650, "InvalidParameter">>, <<1654, "SystemNotSupported">> }

\* return_codes::expected_return_codes
expected_return_codes(msi_based) ==
    IF msi_based THEN COMMON_CODES \cup MSI_CODES ELSE COMMON_CODES

\* InstallerSwitches of the three kinds of setup (mod.rs 236-258)
NoSwitches ==
    [silent |-> <<>>, silent_with_progress |-> <<>>,
     install_location |-> <<>>, log |-> <<>>, repair |-> <<>>]

SUITE_SWITCHES ==
    [NoSwitches EXCEPT !.silent = <<"/silent">>,
                       !.silent_with_progress = <<"/passive">>,
                       !.log = <<"/log \"<LOGPATH>\"">>,
                       !.repair = <<"/repair">>]

MSI_SWITCHES ==
    [NoSwitches EXCEPT
        !.silent = <<"/s /v\"/qn /norestart\"">>,
        !.silent_with_progress = <<"/s /v\"/qb /norestart\"">>,
        !.install_location = <<"/v\"INSTALLDIR=\"\"<INSTALLPATH>\"\"\"">>,
        !.log = <<"/v\"/log \"\"<LOGPATH>\"\"\"">>]

INSTALLSCRIPT_SWITCHES ==
    [NoSwitches EXCEPT !.silent = <<"/s">>,
                       !.silent_with_progress = <<"/s">>]

\* startup.and_then(|s| s.field): <<>> without a setup.ini
StartupField(is, field) ==
    IF is.setup_ini = <<>> THEN <<>> ELSE is.setup_ini[1].startup[field]

\* mod.rs 155-156
ScriptDriven(is) == StartupField(is, "script_driven")
MsiBased(is) == ScriptDriven(is) \in {<<"0">>, <<"2">>}

\* the publisher Setup.xml gives: the string of the default language named
\* by ARPInfo.Publisher, else that name itself (mod.rs 170-181)
XmlPublisher(xml) ==
    IF FirstLanguage(xml.languages, xml.language_selection.default) = 0
    THEN <<xml.arp_info.publisher>>
    ELSE OrElse(StringsGet(
                   xml.languages[FirstLanguage(xml.languages,
                                               xml.language_selection.default)],
                   xml.arp_info.publisher),
                <<xml.arp_info.publisher>>)

\* mod.rs 166-182
Publisher(is) ==
    OrElse(StartupField(is, "company_name"),
        OrElse(IF is.setup_iss = <<>> THEN <<>>
               ELSE <<is.setup_iss[1].application.company>>,
               IF is.setup_xml = <<>> THEN <<>>
               ELSE XmlPublisher(is.setup_xml[1])))

\* the product code of setup.ini as the record carries it (mod.rs 186-194)
FormatProductCode(is, code) ==
    IF MsiBased(is) THEN code
    ELSE IF ScriptDriven(is) = <<"4">> THEN "{" \o code \o "}"
    ELSE "InstallShield_" \o code

\* mod.rs 184-200
ProductCode(is) ==
    OrElse(IF StartupField(is, "product_code") = <<>> THEN <<>>
           ELSE <<FormatProductCode(is, StartupField(is, "product_code")[1])>>,
           IF is.setup_xml = <<>> THEN <<>>
           ELSE OrElse(get_property(is.setup_xml[1], "ProductCode"),
                       <<is.setup_xml[1].suite_id>>))

\* mod.rs 202-205
Version(is) ==
    OrElse(StartupField(is, "product_version"),
        OrElse(IF is.setup_iss = <<>> THEN <<>>
               ELSE <<is.setup_iss[1].application.version>>,
               IF is.setup_xml = <<>> THEN <<>>
               ELSE <<is.setup_xml[1].arp_info.version>>))

\* mod.rs 207-214: the language id; the tag the msi crate gives for it is
\* not modelled
Locale(is) ==
    OrElse(IF is.setup_ini = <<>> THEN <<>>
           ELSE from_str_radix16(
                   trim_start_matches(is.setup_ini[1].languages.default, "0x"),
                   16),
           IF is.setup_xml = <<>> THEN <<>>
           ELSE from_str_radix16(is.setup_xml[1].language_selection.default,
                                 10))

\* variant: setup.iss is asked before setup.ini
DisplayName_IssFirst(is) ==
    OrElse(IF is.setup_iss = <<>> THEN <<>>
           ELSE <<is.setup_iss[1].application.name>>,
        OrElse(StartupField(is, "product"),
               IF is.setup_xml = <<>> THEN <<>>
               ELSE <<is.setup_xml[1].arp_info.display_name>>))

\* mod.rs 216-220
DisplayName(is) ==
    OrElse(StartupField(is, "product"),
        OrElse(IF is.setup_iss = <<>> THEN <<>>
               ELSE <<is.setup_iss[1].application.name>>,
               IF is.setup_xml = <<>> THEN <<>>
               ELSE <<is.setup_xml[1].arp_info.display_name>>))

\* mod.rs 222-224
UpgradeCode(is) ==
    OrElse(StartupField(is, "upgrade_code"),
           IF is.setup_xml = <<>> THEN <<>>
           ELSE get_property(is.setup_xml[1], "UpgradeCode"))

\* mod.rs 227-229
InstallDir(is) ==
    IF is.setup_xml = <<>> THEN <<>>
    ELSE IF get_property(is.setup_xml[1], "INSTALLDIR") = <<>> THEN <<>>
    ELSE <<replace(get_property(is.setup_xml[1], "INSTALLDIR")[1],
                   "[ProgramFiles64Folder]", RELATIVE_PROGRAM_FILES_64)>>

\* mod.rs 231-234
InstallScope(is) ==
    IF InstallDir(is) = <<>> THEN <<"Machine">>
    ELSE OrElse(from_install_directory(InstallDir(is)[1]), <<"Machine">>)

\* mod.rs 236-258
Switches(is) ==
    IF is.setup_xml # <<>> THEN SUITE_SWITCHES
    ELSE IF MsiBased(is) THEN MSI_SWITCHES
    ELSE INSTALLSCRIPT_SWITCHES

\* InstallShield::installers
InstallShield_installers(is) ==
    << [locale |-> Locale(is),
        architecture |-> is.architecture,
        type |-> <<"Exe">>,
        scope |-> InstallScope(is),
        product_code |-> ProductCode(is),
        apps_and_features_entries |->
           << [display_name |-> DisplayName(is),
               publisher |-> Publisher(is),
               display_version |-> Version(is),
               product_code |-> ProductCode(is),
               upgrade_code |-> UpgradeCode(is)] >>,
        default_install_location |-> InstallDir(is),
        switches |-> Switches(is),
        expected_return_codes |-> expected_return_codes(MsiBased(is))] >>

(***************************************************************************)
(* InstallShield files.  A file is described by its layout and the        *)
(* entries of its file table; its bytes are built from the description.   *)
(***************************************************************************)
\* the encoding the decode of File::decrypt undoes:
\* e(p_i) = rotl4(NOT p_i XOR key[i mod |key|])
encode_slice(plain, key) ==
    [i \in 1..Len(plain) |->
        rotate_left4(BitXor(255 - plain[i], key[((i - 1) % Len(key)) + 1]))]
    \o <<>>

RECURSIVE EncodeChunks(_, _)
EncodeChunks(plain, key) ==
    IF Len(plain) <= CHUNK_SIZE THEN encode_slice(plain, key)
    ELSE encode_slice(SubSeq(plain, 1, CHUNK_SIZE), key)
         \o EncodeChunks(SubSeq(plain, CHUNK_SIZE + 1, Len(plain)), key)

Encode(plain, key, encoded_flags) ==
    IF BitAnd(encoded_flags, FLAG_CHUNKED) # 0 THEN EncodeChunks(plain, key)
    ELSE encode_slice(plain, key)

\* 16-bit value, big-endian
BE16(n) == <<n \div 256, n % 256>>

\* a zlib stream of one stored block
ZlibStored(d) ==
    <<120, 1, 1>> \o U16LE(Len(d)) \o U16LE(65535 - Len(d)) \o d
    \o BE16(Adler32(d)[2]) \o BE16(Adler32(d)[1])

\* UTF-16LE bytes of an ASCII string
Utf16Bytes(s) ==
    [i \in 1..(2 * Len(s)) |->
        IF i % 2 = 1 THEN Ord(Ch(s, (i + 1) \div 2)) ELSE 0]
    \o <<>>

\* the bytes stored for a text, by the form of storage
Stored(name, text, form) ==
    CASE form = "plain" -> StrBytes(text)
      [] form = "bom8" -> UTF8_BOM \o StrBytes(text)
      [] form = "bom16" -> UTF16LE_BOM \o Utf16Bytes(text)
      [] form = "encoded" ->
            Encode(StrBytes(text), DecryptKey(name), FLAG_ENCODED)
      [] form = "chunked" ->
            Encode(StrBytes(text), DecryptKey(name),
                   FLAG_ENCODED + FLAG_CHUNKED)
      [] form = "deflated" ->
            Encode(ZlibStored(StrBytes(text)), DecryptKey(name), FLAG_ENCODED)

FormFlags(form) ==
    CASE form \in {"encoded", "deflated"} -> FLAG_ENCODED
      [] form = "chunked" -> FLAG_ENCODED + FLAG_CHUNKED
      [] OTHER -> 0

\* an entry: its name, its text, how the text is stored, and by how much
\* the size the table declares exceeds the bytes present
Entry(name, text, form, excess) ==
    [name |-> name, text |-> text, form |-> form, excess |-> excess]

INI_INFO == "[Info]\nName=INTL\nVersion=1.00.000\nDiskSpace=8000\n"
INI_LANGUAGES ==
    "[Languages]\nRequireExactLangMatch=0x0404\nRTLLangs=0x0401\n"
    \o "Default=0x0409\nSupported=0x0409\n"
INI_STARTUP ==
    "[Startup]\nCmdLine=\nDoMaintenance=N\nDotNetOptionalInstallIfSilent=N\n"
    \o "EnableLangDlg=Y\nLauncherName=setup.exe\nLogResults=N\nOnUpgrade=1\n"
    \o "PackageCode={PK}\nPackageName=a.msi\nScriptVer=1.0.0.1\n"
    \o "SuppressWrongOS=Y\n"

\* a setup.ini with every required key
IniText(product, code, version, script_driven, more) ==
    INI_INFO \o INI_STARTUP \o "Product=" \o product \o "\nProductCode="
    \o code \o "\nProductVersion=" \o version \o "\nScriptDriven="
    \o script_driven \o "\n" \o more \o INI_LANGUAGES

\* a setup.ini of two keys only
INI_TWO_KEYS == "[Startup]\nProduct=Foo\nProductCode=ABC\n"

ISS_TEXT == "[Application]\nName=IssApp\nVersion=2.0\nCompany=IssCo\n"

XmlText(properties) ==
    "<Setup SuiteId=\"{SUITE}\"><ARPInfo><Version>3.0</Version>"
    \o "<Publisher>ID_PUB</Publisher><DisplayName>XmlApp</DisplayName>"
    \o "</ARPInfo><LanguageSelection Default=\"1033\"/><Languages>"
    \o "<Language lcid=\"1031\"><ID_PUB>XmlGmbH</ID_PUB></Language>"
    \o "<Language lcid=\"1033\"><ID_PUB>XmlCo</ID_PUB></Language>"
    \o "</Languages>" \o properties \o "</Setup>"

XML_CODES ==
    "<SetProperty Name=\"ProductCode\" Value=\"{XPC}\"/>"
    \o "<SetProperty Name=\"UpgradeCode\" Value=\"{XUC}\"/>"
    \o "<SetProperty Name=\"INSTALLDIR\" "
    \o "Value=\"[ProgramFiles64Folder]XmlCo\"/>"
XML_NO_CODES ==
    "<SetProperty Name=\"ProductCode\"/>"
    \o "<SetProperty Name=\"ProductCode\" Value=\"{LATER}\"/>"

E_CAB == Entry("data1.cab", "MSCF....", "plain", 0)
E_INI(script_driven) ==
    Entry("setup.ini", IniText("Foo", "ABC", "1.0", script_driven, ""),
          "plain", 0)
E_INI_FULL ==
    Entry("Setup.INI",
          IniText("Bar", "DEF", "1.5", "0",
                  "CompanyName=IniCo\nUpgradeCode={IUC}\n"),
          "plain", 0)
E_INI_AS(form) ==
    Entry("setup.ini", IniText("Enc", "GHI", "4.0", "4", ""), form, 0)
E_INI_TWO_KEYS == Entry("setup.ini", INI_TWO_KEYS, "plain", 0)
E_INI_BROKEN == Entry("SETUP.INI", "[Startup\nProduct", "plain", 0)
E_INI_PAST_END == Entry("setup.ini", IniText("Cut", "JKL", "1.0", "1", ""),
                        "plain", 50)
E_ISS == Entry("setup.iss", ISS_TEXT, "plain", 0)
E_ISS_AS(form) == Entry("SETUP.ISS", ISS_TEXT, form, 0)
E_XML == Entry("Setup.xml", XmlText(XML_CODES), "plain", 0)
E_XML_NO_CODES == Entry("setup.XML", XmlText(XML_NO_CODES), "bom8", 0)
E_XML_BROKEN == Entry("Setup.xml", "<Setup><ARPInfo></Setup>", "plain", 0)

\* the file tables of the files analysed
EntryLists ==
    { <<>>,
      <<E_CAB>>,
      <<E_INI("1")>>, <<E_INI("0")>>, <<E_INI("2")>>, <<E_INI("4")>>,
      <<E_INI("")>>,
      <<E_INI_TWO_KEYS>>,
      <<E_CAB, E_INI_FULL>>,
      <<E_INI_AS("encoded"), E_CAB>>,
      <<E_INI_AS("chunked")>>,
      <<E_INI_AS("deflated")>>,
      <<E_INI_AS("bom16")>>,
      <<E_ISS>>,
      <<E_XML>>,
      <<E_XML_NO_CODES>>,
      <<E_INI("1"), E_ISS>>,
      <<E_INI("4"), E_ISS_AS("encoded")>>,
      <<E_ISS, E_XML>>,
      <<E_INI("1"), E_XML>>,
      <<E_INI("0"), E_XML_NO_CODES>>,
      <<E_INI_FULL, E_ISS, E_XML>>,
      <<E_INI("1"), E_CAB, E_INI_FULL>>,
      <<E_INI_FULL, E_INI("2")>>,
      <<E_INI("1"), E_INI_BROKEN>>,
      <<E_INI_BROKEN, E_INI("1")>>,
      <<E_INI_BROKEN>>,
      <<E_XML, E_XML_BROKEN>>,
      <<E_ISS, E_INI_PAST_END>>,
      <<E_INI("1"), E_INI_PAST_END>>,
      <<E_INI_PAST_END>> }

\* layouts whose table records carry the flags of an entry, and the others
FlagLayouts == {"Stream", "Stream4", "Plain"}
StringLayouts == {"Script", "ScriptAscii"}

\* the bytes of an entry and the size its table record declares
Content(e) == Stored(e.name, e.text, e.form)
DeclaredSize(e) == Len(Content(e)) + e.excess

Strz(s) == StrBytes(s) \o <<0>>
Strz16(s) == Utf16Bytes(s) \o <<0, 0>>

EntryRecord(layout, e) ==
    CASE layout \in {"Stream", "Stream4"} ->
            LE32(2 * Len(e.name)) \o LE32(FormFlags(e.form)) \o Zeros(2)
            \o LE32(DeclaredSize(e)) \o Zeros(10)
            \o (IF layout = "Stream4" THEN Zeros(24) ELSE <<>>)
            \o Utf16Bytes(e.name) \o Content(e)
      [] layout = "Plain" ->
            StrBytes(e.name) \o Zeros(260 - Len(e.name))
            \o LE32(FormFlags(e.form)) \o Zeros(4)
            \o LE32(DeclaredSize(e)) \o Zeros(40) \o Content(e)
      [] layout = "Script" ->
            Strz16(e.name) \o Strz16("C:\\") \o Strz16("1.0")
            \o Strz16(ToString(DeclaredSize(e))) \o Content(e)
      [] layout = "ScriptAscii" ->
            Strz(e.name) \o Strz("") \o Strz("1.0")
            \o Strz(ToString(DeclaredSize(e))) \o Content(e)

RECURSIVE EntryRecords(_, _)
EntryRecords(layout, entries) ==
    IF entries = <<>> THEN <<>>
    ELSE EntryRecord(layout, Head(entries))
         \o EntryRecords(layout, Tail(entries))

\* what precedes the entries at the overlay offset
TableHead(layout, count) ==
    CASE layout = "Stream" ->
            StrBytes(MAGIC_STREAM) \o <<0>> \o U16LE(count) \o LE32(3)
            \o Zeros(26)
      [] layout = "Stream4" ->
            StrBytes(MAGIC_STREAM) \o <<0>> \o U16LE(count) \o LE32(4)
            \o Zeros(26)
      [] layout = "Plain" ->
            StrBytes(MAGIC_PLAIN) \o <<0>> \o U16LE(count) \o LE32(0)
            \o Zeros(26)
      [] layout = "Script" -> LE32(count)
      [] layout = "ScriptAscii" -> <<>>
      [] layout = "Foreign" -> Fill(46)

\* an NB10 debug record as some files carry before the header
NB10_RECORD == NB10 \o Zeros(12) \o StrBytes("a.pdb") \o <<0>>

STUB_LEN == 16

\* the bytes of a file: the PE image, then the overlay
CutEnd(bytes, cut) == SubSeq(bytes, 1, Len(bytes) - cut)

Container(in) ==
    CutEnd(Fill(STUB_LEN)
           \o (IF in.nb10 THEN NB10_RECORD ELSE <<>>)
           \o TableHead(in.layout, Len(in.entries) + in.missing)
           \o EntryRecords(in.layout, in.entries),
           in.cut)

\* the version resource of a file of the layout
LayoutVersionInfo(layout) ==
    CASE layout = "Script" ->
            MapPut(EmptyMap, IS_INTERNAL_DESCRIPTION, "InstallScript Setup")
      [] layout = "ScriptAscii" ->
            MapPut(EmptyMap, PRODUCT_NAME, "InstallShield (R)")
      [] OTHER -> MapPut(EmptyMap, PRODUCT_NAME, "Foo")

\* a file: missing is the number of entries the header counts beyond those
\* present, cut the number of bytes missing at the end of the file
InstallShieldInput(layout, entries) ==
    [probe |-> "InstallShield", layout |-> layout, entries |-> entries,
     nb10 |-> FALSE, missing |-> 0, cut |-> 0, overlay |-> <<STUB_LEN>>,
     version_info |-> LayoutVersionInfo(layout),
     machine |-> "MACHINE_I386"]

IsPlainForm(e) == FormFlags(e.form) = 0

\* the files the InstallShield probe is applied to
InstallShieldInputs ==
    {InstallShieldInput(l, es) : l \in FlagLayouts, es \in EntryLists}
    \cup {InstallShieldInput(l, es) :
            l \in StringLayouts,
            es \in {x \in EntryLists : \A k \in 1..Len(x) : IsPlainForm(x[k])}}
    \cup {[InstallShieldInput(l, <<E_INI("1"), E_ISS>>) EXCEPT !.missing = 1] :
            l \in FlagLayouts \cup StringLayouts}
    \cup {[InstallShieldInput(l, <<E_ISS, E_INI("1")>>) EXCEPT !.cut = c] :
            l \in FlagLayouts \cup StringLayouts, c \in {10, 500}}
    \cup {[InstallShieldInput(l, <<E_INI_FULL>>) EXCEPT !.nb10 = TRUE] :
            l \in {"Stream", "Plain"}}
    \cup {[InstallShieldInput("Stream", <<E_INI("1")>>) EXCEPT !.overlay = o] :
            o \in {<<>>, <<0>>, <<5000>>}}
    \cup {[InstallShieldInput("Stream", <<E_XML>>) EXCEPT !.machine = m] :
            m \in Machines}
    \cup {InstallShieldInput("Foreign", <<>>)}

\* the files the Advanced Installer probe is applied to
AdvancedInputs ==
    {[BaseInput EXCEPT !.data = c[1], !.dd4 = c[2]] : c \in AdvancedCases}

(***************************************************************************)
(* The probes that confirm a format by a payload, each applied to a file  *)
(* on a reader at position 0.                                             *)
(***************************************************************************)
IsInstallShieldInput(in) == "probe" \in DOMAIN in

NewInstallShield(in) ==
    InstallShield_new(Container(in), in.overlay, in.version_info, in.machine)

InitInstallShield ==
    /\ input \in InstallShieldInputs \cup AdvancedInputs
    /\ pc = IF IsInstallShieldInput(input) THEN "InstallShield"
            ELSE "AdvancedInstaller"
    /\ pos = 0
    /\ invoked = <<>>
    /\ exe = NoExe
    /\ analysis = Running
    /\ stack = <<>>
    /\ variables = EmptyMap
    /\ ip = 1
    /\ MOCK_STRUCTS = EmptyMap
    /\ STORED_REGISTERS = <<>>
    /\ overflow_checks \in BOOLEAN

\* InstallShield::new
InstallShieldReturns(result) ==
    /\ exe' = result
    /\ pc' = IF result.res = "Ok" THEN "Installers" ELSE "Done"

InstallShieldNew ==
    /\ pc = "InstallShield"
    /\ invoked' = Append(invoked, "InstallShield")
    /\ InstallShieldReturns(NewInstallShield(input))
    /\ UNCHANGED <<input, pos, analysis, vm, statics, profile>>

\* InstallShield::installers on the value new returned
InstallShieldInstallers ==
    /\ pc = "Installers"
    /\ analysis' = [Running EXCEPT
                       !.status = "Ok",
                       !.installers = InstallShield_installers(exe)]
    /\ pc' = "Done"
    /\ UNCHANGED <<input, pos, invoked, exe, vm, statics, profile>>

NextInstallShield ==
    \/ InstallShieldNew
    \/ InstallShieldInstallers
    \/ ProbeAdvancedInstaller

SpecInstallShield == InitInstallShield /\ [][NextInstallShield]_vars

(***************************************************************************)
(* What the description of a file says, apart from the probe.             *)
(***************************************************************************)
\* header and file table are those of an InstallShield file and complete
TableIntact(in) ==
    /\ in.layout \in FlagLayouts \cup StringLayouts
    /\ in.overlay = <<STUB_LEN>>
    /\ in.missing = 0
    /\ in.cut = 0
    /\ \A k \in 1..(Len(in.entries) - 1) : in.entries[k].excess = 0

\* the parsed payload an entry holds under the name given, <<>> if none
PayloadOf(e, name) ==
    IF ~eq_ignore_ascii_case(e.name, name) THEN <<>>
    ELSE IF name = "setup.ini" THEN SetupIni(e.text)
    ELSE IF name = "setup.iss" THEN SetupIss(e.text)
    ELSE SetupXml(e.text)

PAYLOAD_NAMES == {"setup.ini", "setup.iss", "Setup.xml"}

\* no entry holds a payload
NoPayload(in) ==
    \A k \in 1..Len(in.entries) :
        \A name \in PAYLOAD_NAMES : PayloadOf(in.entries[k], name) = <<>>

\* Advanced Installer containers with magic, footer and file table whose
\* entries hold no MSI
ADVANCED_WITHOUT_MSI == {"adv_nomsi"}

\* C11: when the header or signature of a file matches but no payload
\* confirms it, the probe declines: InstallShield::new returns
\* NotInstallShieldFile when the file table is complete and none of
\* setup.ini, setup.iss, Setup.xml can be resolved, and
\* AdvancedInstaller::new returns NotAdvancedInstallerFile (Exe::new goes on
\* to the next probe) when the container embeds no MSI.
C11_UnconfirmedIsDeclined ==
    /\ (IsInstallShieldInput(input) /\ pc # "InstallShield"
        /\ TableIntact(input) /\ NoPayload(input))
       => exe.res = "NotInstallShieldFile"
    /\ (~IsInstallShieldInput(input) /\ invoked = <<"AdvancedInstaller">>
        /\ input.data \in ADVANCED_WITHOUT_MSI)
       => (pc = NextProbe("AdvancedInstaller") /\ analysis = Running)

C11_Witness ==
    /\ IsInstallShieldInput(input)
    /\ pc = "Done"
    /\ TableIntact(input)
    /\ input.entries # <<>>
    /\ NoPayload(input)
    /\ exe.res = "NotInstallShieldFile"

(***************************************************************************)
(* C12                                                                     *)
(***************************************************************************)
\* the payload InstallShield::new holds under a well-known name
HeldPayload(is, name) ==
    IF name = "setup.ini" THEN is.setup_ini
    ELSE IF name = "setup.iss" THEN is.setup_iss
    ELSE is.setup_xml

\* the entries of a container that carry the name given, in table order
EntriesNamed(in, name) ==
    {k \in 1..Len(in.entries) : eq_ignore_ascii_case(in.entries[k].name, name)}

\* what the last entry of that name holds; an entry whose data lie beyond
\* the end of the file holds nothing
LastPayload(in, name) ==
    IF EntriesNamed(in, name) = {} THEN <<>>
    ELSE LET e == in.entries[MaxOf(EntriesNamed(in, name))]
         IN  IF e.excess # 0 THEN <<>> ELSE PayloadOf(e, name)

\* C12: for each of setup.ini, setup.iss and Setup.xml the InstallShield
\* probe uses the last entry of the file table whose name matches ASCII
\* case-insensitively: what the probe holds under the name is what that last
\* entry holds, whatever earlier entries of the same name hold.
C12_LastMatchWins ==
    (IsInstallShieldInput(input) /\ pc # "InstallShield" /\ TableIntact(input))
    => \A name \in PAYLOAD_NAMES :
          HeldPayload(exe, name) = LastPayload(input, name)

C12_Witness ==
    /\ IsInstallShieldInput(input) /\ pc = "Done" /\ TableIntact(input)
    /\ \E name \in PAYLOAD_NAMES :
         \E j, k \in EntriesNamed(input, name) :
            /\ j < k
            /\ k = MaxOf(EntriesNamed(input, name))
            /\ input.entries[j].name # input.entries[k].name
            /\ PayloadOf(input.entries[j], name) # <<>>
            /\ PayloadOf(input.entries[k], name) # <<>>
            /\ PayloadOf(input.entries[j], name) # PayloadOf(input.entries[k], name)
            /\ HeldPayload(exe, name) = PayloadOf(input.entries[k], name)

(***************************************************************************)
(* C13                                                                     *)
(***************************************************************************)
\* a file whose overlay starts a file table of a known layout
HeaderIntact(in) ==
    /\ in.layout \in FlagLayouts \cup StringLayouts
    /\ in.overlay = <<STUB_LEN>>

\* C13: in the InstallShield probe a file-table entry or a payload file that
\* cannot be read or decoded counts as absent: InstallShield::new never
\* returns an Io failure because of it, and what the entries that are whole
\* hold is still used.
C13_EntryFailureIsAbsence ==
    (IsInstallShieldInput(input) /\ pc # "InstallShield" /\ HeaderIntact(input))
    => /\ exe.res # "Io"
       /\ input.cut = 0
          => \A name \in PAYLOAD_NAMES :
                HeldPayload(exe, name) = LastPayload(input, name)

(***************************************************************************)
(* C14                                                                     *)
(***************************************************************************)
\* the first value a sequence of optional values supplies
RECURSIVE FirstSupplied(_)
FirstSupplied(options) ==
    IF options = <<>> THEN <<>>
    ELSE IF Head(options) # <<>> THEN Head(options)
    ELSE FirstSupplied(Tail(options))

\* what setup.iss supplies for a field of its Application section
IssSupplies(is, field) ==
    IF is.setup_iss = <<>> THEN <<>> ELSE <<is.setup_iss[1].application[field]>>

\* what Setup.xml supplies for a field of ARPInfo
ArpSupplies(is, field) ==
    IF is.setup_xml = <<>> THEN <<>> ELSE <<is.setup_xml[1].arp_info[field]>>

\* the values of the SetProperty elements of Setup.xml with the name given
PropertyValues(is, name) ==
    IF is.setup_xml = <<>> THEN {}
    ELSE {is.setup_xml[1].set_property[k].value :
            k \in {j \in 1..Len(is.setup_xml[1].set_property) :
                     is.setup_xml[1].set_property[j].name = name}}

\* the forms in which the record may carry a product code of setup.ini
CodeForms(code) == {code, "{" \o code \o "}", "InstallShield_" \o code}

\* the uninstall entry of the record built
UninstallEntry == analysis.installers[1].apps_and_features_entries[1]

OnlySetupIni(in) ==
    IF /\ TableIntact(in)
       /\ Cardinality(EntriesNamed(in, "setup.ini")) = 1
       /\ EntriesNamed(in, "setup.iss") = {}
       /\ EntriesNamed(in, "Setup.xml") = {}
    THEN LET e == in.entries[MaxOf(EntriesNamed(in, "setup.ini"))]
         IN  IF /\ e.excess = 0
                /\ IniOption(IniMap(e.text), "Startup", "Product") # <<>>
                /\ IniOption(IniMap(e.text), "Startup", "ProductCode") # <<>>
             THEN <<e.text>>
             ELSE <<>>
    ELSE <<>>

\* the product code a record carries for the code and the script-driven
\* flag written in setup.ini
CodeByFlag(flag, code) ==
    IF flag \in {<<"0">>, <<"2">>} THEN code
    ELSE IF flag = <<"4">> THEN "{" \o code \o "}"
    ELSE "InstallShield_" \o code

\* the record the Startup section of a setup.ini text stands for
RecordOfStartup(ini, records) ==
    /\ Len(records) = 1
    /\ records[1].product_code =
          <<CodeByFlag(IniOption(ini, "Startup", "ScriptDriven"),
                       IniOption(ini, "Startup", "ProductCode")[1])>>
    /\ Len(records[1].apps_and_features_entries) = 1
    /\ records[1].apps_and_features_entries[1].product_code =
          records[1].product_code
    /\ records[1].apps_and_features_entries[1].display_name =
          IniOption(ini, "Startup", "Product")

\* C15: an InstallShield container whose only payload is a setup.ini with
\* Product Foo and ProductCode ABC yields exactly one record with product
\* code InstallShield_ABC and display name Foo; in general the product code
\* of setup.ini is carried verbatim when the script-driven flag is 0 or 2,
\* in braces when it is 4 and prefixed with InstallShield_ otherwise, and
\* the record and its uninstall entry carry the same value.
C15_SetupIniRecord ==
    (IsInstallShieldInput(input) /\ pc = "Done" /\ OnlySetupIni(input) # <<>>)
    => /\ analysis.status = "Ok"
       /\ RecordOfStartup(IniMap(OnlySetupIni(input)[1]), analysis.installers)
       /\ OnlySetupIni(input) = <<INI_TWO_KEYS>>
             => /\ analysis.installers[1].product_code = <<"InstallShield_ABC">>
                /\ UninstallEntry.display_name = <<"Foo">>

(***************************************************************************)
(* C16                                                                     *)
(***************************************************************************)
\* the class of the file a record was built for
InstallShieldClass(is) ==
    IF is.setup_xml # <<>> THEN "Suite"
    ELSE IF StartupField(is, "script_driven") \in {<<"0">>, <<"2">>} THEN "MSI"
    ELSE "InstallScript"

\* the switch template of a class
ClassSwitches(class) ==
    CASE class = "Suite" -> SUITE_SWITCHES
      [] class = "MSI" -> MSI_SWITCHES
      [] OTHER -> INSTALLSCRIPT_SWITCHES

\* the exit codes of a class: those of the Windows Installer for the MSI
\* class only
ClassReturnCodes(class) == expected_return_codes(class = "MSI")

\* the exit codes of the Windows Installer, 1601 to 1654
IsMsiCode(c) == c[1] >= 1601 /\ c[1] <= 1654

\* C16: the switch template and the set of expected exit codes of an
\* InstallShield record are chosen by one three-way class (Suite when
\* Setup.xml is present, otherwise MSI when the script-driven flag is 0 or
\* 2, otherwise InstallScript): records of one class carry the same set of
\* exit codes, and the exit codes 1601 to 1654 are carried only by records
\* with the MSI switch template.
C16_OneClassForSwitchesAndCodes ==
    (IsInstallShieldInput(input) /\ pc = "Done" /\ analysis.status = "Ok")
    => /\ analysis.installers[1].switches =
             ClassSwitches(InstallShieldClass(exe))
       /\ analysis.installers[1].expected_return_codes =
             ClassReturnCodes(InstallShieldClass(exe))
       /\ (\E c \in analysis.installers[1].expected_return_codes : IsMsiCode(c))
             => analysis.installers[1].switches = MSI_SWITCHES

(***************************************************************************)
(* The decode of File::decrypt applied to encoded payloads.  A file is a  *)
(* name, a plaintext, the flags of the entry and the bytes stored: the    *)
(* plaintext encoded under the key of the name.                           *)
(***************************************************************************)
\* longest payload: two chunks and a part of a third
MAX_PAYLOAD == 2 * CHUNK_SIZE + 2

\* entry names: keys of length 1, 3, 4 and 9; the key of "1" is <<34>>,
\* a byte of two equal nibbles
DecodeNames == {"1", "a", "a.b", "data", "setup.ini"}

\* a payload of n bytes
Pattern(n, mul, add) == [i \in 1..n |-> (i * mul + add) % 256] \o <<>>

DecodePayloads ==
    {<<b>> : b \in 0..255}
    \cup {Pattern(n, 7, 3) : n \in {0, 2, 5, CHUNK_SIZE, CHUNK_SIZE + 1,
                                    MAX_PAYLOAD}}
    \cup {Pattern(CHUNK_SIZE + 6, 0, 255), Pattern(CHUNK_SIZE + 6, 1, 0)}

DecodeFlags ==
    {FLAG_ENCODED, FLAG_CHUNKED, BitOr(FLAG_ENCODED, FLAG_CHUNKED)}

DecodeInputs ==
    {[decode |-> TRUE, name |-> n, plain |-> p, encoded_flags |-> f,
      data |-> Encode(p, DecryptKey(n), f)] :
        n \in DecodeNames, p \in DecodePayloads, f \in DecodeFlags}

IsDecodeInput(in) == "decode" \in DOMAIN in

InitDecode ==
    /\ input \in DecodeInputs
    /\ pc = "Decode"
    /\ pos = 0
    /\ invoked = <<>>
    /\ exe = NoExe
    /\ analysis = Running
    /\ stack = <<>>
    /\ variables = EmptyMap
    /\ ip = 1
    /\ MOCK_STRUCTS = EmptyMap
    /\ STORED_REGISTERS = <<>>
    /\ overflow_checks \in BOOLEAN

\* the decode of File::decrypt (file.rs 35-51) on the stored bytes
DecodeStored ==
    /\ pc = "Decode"
    /\ exe' = [decoded |-> Decode(input.data, DecryptKey(input.name),
                                  input.encoded_flags)]
    /\ pc' = "DecodeAgain"
    /\ UNCHANGED <<input, pos, invoked, analysis, vm, statics, profile>>

\* the same decode on the bytes already decoded
DecodeDecoded ==
    /\ pc = "DecodeAgain"
    /\ exe' = [decoded |-> exe.decoded,
               twice |-> Decode(exe.decoded, DecryptKey(input.name),
                                input.encoded_flags)]
    /\ pc' = "Done"
    /\ UNCHANGED <<input, pos, invoked, analysis, vm, statics, profile>>

NextDecode == DecodeStored \/ DecodeDecoded

SpecDecode == InitDecode /\ [][NextDecode]_vars

(***************************************************************************)
(* C17                                                                     *)
(***************************************************************************)
\* the key bytes a payload of n bytes meets
KeyBytesMet(key, n, encoded_flags) ==
    {key[((i - 1) % Len(key)) + 1] :
        i \in 1..(IF BitAnd(encoded_flags, FLAG_CHUNKED) # 0 /\ n > CHUNK_SIZE
                  THEN CHUNK_SIZE ELSE n)}

\* a byte whose two nibbles are equal
EqualNibbles(b) == b % 16 = b \div 16

\* C17: for every non-empty entry name and every payload the decode of
\* File::decrypt, with the key of the name and the key index restarting at
\* every 1024-byte chunk when the chunked flag is set, is a bijection on
\* payloads: decoding the encoding of a plaintext returns the plaintext and
\* encoding the decoding of a payload returns the payload.  The transform is
\* not its own inverse: decoding a decoded payload returns the encoded bytes
\* only where every key byte met has two equal nibbles.
C17_DecodeInvertsEncode ==
    (IsDecodeInput(input) /\ pc # "Decode")
    => /\ exe.decoded = input.plain
       /\ Len(exe.decoded) = Len(input.data)
       /\ pc = "Done"
          => /\ Encode(exe.twice, DecryptKey(input.name), input.encoded_flags)
                  = input.plain
             /\ exe.twice = input.data
                <=> \A k \in KeyBytesMet(DecryptKey(input.name),
                                         Len(input.plain),
                                         input.encoded_flags) : EqualNibbles(k)

C17_Witness ==
    /\ IsDecodeInput(input) /\ pc = "Done"
    /\ BitAnd(input.encoded_flags, FLAG_CHUNKED) # 0
    /\ Len(input.plain) > CHUNK_SIZE
    /\ CHUNK_SIZE % Len(input.name) # 0
    /\ input.data # input.plain
    /\ exe.decoded = input.plain
    /\ exe.twice # input.data
    /\ exe.twice # input.plain

(***************************************************************************)
(* extract_pe_icons applied to resource tables.  A file is described by   *)
(* the icon images it holds, how the resource table lists each of them,   *)
(* and its icon groups: the member ids of each group and how the table    *)
(* lists the group.  Its bytes and its resource table are built from the  *)
(* description.                                                           *)
(***************************************************************************)
\* ids of the icon images a file holds; a group may also name MISSING_ID
IMAGE_IDS == 1..3
MISSING_ID == 4

\* the image bytes of an id
Image(id) == [i \in 1..(id + 2) |-> 10 * id + i] \o <<>>

\* where the images and the groups start in the file
IMAGES_AT == 8
RECURSIVE ImageOffset(_)
ImageOffset(id) ==
    IF id = 1 THEN IMAGES_AT ELSE ImageOffset(id - 1) + Len(Image(id - 1))
GROUPS_AT == ImageOffset(3) + Len(Image(3))

\* the 14-byte directory entry a group holds for a member: width, height,
\* colour count, a reserved byte that is not 0, planes, bit count, a length
\* field and the id
MemberEntry(id) ==
    <<16 * id, 8 * id, id, 9>> \o U16LE(1) \o U16LE(8 * id)
    \o LE32(100 + id) \o U16LE(id)

RECURSIVE MemberEntries(_)
MemberEntries(members) ==
    IF members = <<>> THEN <<>>
    ELSE MemberEntry(Head(members)) \o MemberEntries(Tail(members))

\* how the resource table lists a group
GroupListings ==
    {"whole", "overcount", "truncated", "short", "offset0", "beyond"}

IconGroup(members, listing) == [members |-> members, listing |-> listing]

\* the bytes of a group: header and the entries of its members
GroupBytes(g) ==
    <<0, 0, 1, 0>>
    \o U16LE(Len(g.members) + (IF g.listing = "overcount" THEN 2 ELSE 0))
    \o MemberEntries(g.members)

RECURSIVE GroupsBytes(_)
GroupsBytes(groups) ==
    IF groups = <<>> THEN <<>>
    ELSE GroupBytes(Head(groups)) \o GroupsBytes(Tail(groups))

\* the bytes of the file
IconFile(in) ==
    Fill(IMAGES_AT) \o Image(1) \o Image(2) \o Image(3) \o GroupsBytes(in.groups)

\* the resource of an image as the table lists it
ImageResource(id, listing) ==
    CASE listing = "ok" ->
            <<Resource(RESOURCE_TYPE_ICON, id, ImageOffset(id), Len(Image(id)))>>
      [] listing = "offset0" ->
            <<Resource(RESOURCE_TYPE_ICON, id, 0, Len(Image(id)))>>
      [] listing = "beyond" ->
            <<Resource(RESOURCE_TYPE_ICON, id, ImageOffset(id), 1000)>>
      [] OTHER -> <<>>

GroupOffset(in, k) == GROUPS_AT + Len(GroupsBytes(SubSeq(in.groups, 1, k - 1)))

\* the resource of the k-th group as the table lists it
GroupResource(in, k) ==
    LET g == in.groups[k]
        whole == Len(GroupBytes(g))
    IN  Resource(RESOURCE_TYPE_GROUP_ICON, 100 + k,
                 IF g.listing = "offset0" THEN 0 ELSE GroupOffset(in, k),
                 CASE g.listing = "truncated" -> whole - 7
                   [] g.listing = "short" -> 4
                   [] g.listing = "beyond" -> whole + 1000
                   [] OTHER -> whole)

\* pe.resources
IconTable(in) ==
    LET images == ImageResource(1, in.images[1]) \o ImageResource(2, in.images[2])
                  \o ImageResource(3, in.images[3])
        groups == [k \in 1..Len(in.groups) |-> GroupResource(in, k)]
    IN  IF in.groups_first THEN groups \o images ELSE images \o groups

ImageListings ==
    { <<"ok", "ok", "ok">>, <<"ok", "absent", "absent">>,
      <<"absent", "ok", "ok">>, <<"absent", "absent", "absent">>,
      <<"beyond", "ok", "absent">>, <<"ok", "offset0", "ok">> }

GroupLists ==
    {<<IconGroup(m, "whole")>> :
        m \in {<<>>, <<1>>, <<2>>, <<1, 2>>, <<2, 1>>, <<3, 1, 2>>,
               <<MISSING_ID>>, <<MISSING_ID, 1>>, <<1, MISSING_ID, 3>>, <<1, 1>>}}
    \cup {<<IconGroup(m, l)>> :
            m \in {<<1>>, <<1, 2>>, <<2, MISSING_ID, 3>>}, l \in GroupListings}
    \cup {<<IconGroup(<<1, 2>>, "whole"), IconGroup(<<MISSING_ID>>, "whole")>>,
          <<IconGroup(<<MISSING_ID>>, "whole"), IconGroup(<<2>>, "whole")>>,
          <<IconGroup(<<1, 2>>, "truncated"), IconGroup(<<3>>, "whole")>>,
          <<IconGroup(<<1>>, "short"), IconGroup(<<3, 2>>, "overcount")>>,
          <<IconGroup(<<1>>, "whole"), IconGroup(<<1>>, "whole")>>,
          <<IconGroup(<<2, 3>>, "whole"), IconGroup(<<1, 2>>, "beyond")>>,
          <<>>}

IconInputs ==
    {[icon_images |-> TRUE, images |-> i, groups |-> g, groups_first |-> f] :
        i \in ImageListings, g \in GroupLists, f \in BOOLEAN}

IsIconInput(in) == "icon_images" \in DOMAIN in

InitIcons ==
    /\ input \in IconInputs
    /\ pc = "Icons"
    /\ pos = 0
    /\ invoked = <<>>
    /\ exe = NoExe
    /\ analysis = Running
    /\ stack = <<>>
    /\ variables = EmptyMap
    /\ ip = 1
    /\ MOCK_STRUCTS = EmptyMap
    /\ STORED_REGISTERS = <<>>
    /\ overflow_checks \in BOOLEAN

\* extract_pe_icons(pe, data)
ExtractIcons ==
    /\ pc = "Icons"
    /\ analysis' = [Running EXCEPT
                       !.status = "Ok",
                       !.icons = extract_pe_icons(IconTable(input),
                                                  IconFile(input))]
    /\ pc' = "Done"
    /\ UNCHANGED <<input, pos, invoked, exe, vm, statics, profile>>

NextIcons == ExtractIcons

SpecIcons == InitIcons /\ [][NextIcons]_vars

(***************************************************************************)
(* C18                                                                     *)
(***************************************************************************)
\* the members of a group whose directory entry the table lets one read
ReadableMembers(g) ==
    CASE g.listing \in {"whole", "overcount"} -> g.members
      [] g.listing = "truncated" -> SubSeq(g.members, 1, Len(g.members) - 1)
      [] OTHER -> <<>>

\* the members of a group that resolve to an indexed image, in directory
\* order
RECURSIVE Resolving(_, _)
Resolving(members, images) ==
    IF members = <<>> THEN <<>>
    ELSE (IF Head(members) \in IMAGE_IDS /\ images[Head(members)] = "ok"
          THEN <<Head(members)>> ELSE <<>>)
         \o Resolving(Tail(members), images)

ResolvedMembers(in, k) == Resolving(ReadableMembers(in.groups[k]), in.images)

\* sum of the image lengths of the first n of the members
RECURSIVE LengthBefore(_, _)
LengthBefore(members, n) ==
    IF n = 0 THEN 0
    ELSE Len(Image(members[n])) + LengthBefore(members, n - 1)

\* f is the icon file of the members given
IsIcoOf(f, members) ==
    LET N == Len(members)
    IN  /\ Len(f) = 6 + 16 * N + LengthBefore(members, N)
        /\ U16At(f, 4) = N
        /\ \A i \in 1..N :
              LET at == 6 + 16 * (i - 1)
                  offset == 6 + 16 * N + LengthBefore(members, i - 1)
                  length == Len(Image(members[i]))
              IN  /\ SubSeq(f, at + 1, at + 3) = SubSeq(MemberEntry(members[i]), 1, 3)
                  /\ f[at + 4] = 0
                  /\ SubSeq(f, at + 5, at + 8) = SubSeq(MemberEntry(members[i]), 5, 8)
                  /\ SubSeq(f, at + 9, at + 12) = LE32(length)
                  /\ SubSeq(f, at + 13, at + 16) = LE32(offset)
                  /\ SubSeq(f, offset + 1, offset + length) = Image(members[i])

\* C18: for every icon group with N >= 1 resolved members extract_pe_icons
\* emits an icon file with count field N and length 6 + 16 N + the sum of
\* the member lengths, holding for each resolved member, in directory order,
\* a 16-byte entry with the dimension, colour-count, planes and bit-count
\* bytes of the group entry, a reserved byte 0, the length of the member's
\* image and the offset 6 + 16 N + the lengths of the members before it, at
\* which the bytes of the file are the bytes of the member's image.
C18_IconFileLayout ==
    (IsIconInput(input) /\ pc = "Done")
    => \A k \in 1..Len(input.groups) :
          ResolvedMembers(input, k) # <<>>
          => \E f \in analysis.icons : IsIcoOf(f, ResolvedMembers(input, k))

C18_Witness ==
    /\ IsIconInput(input) /\ pc = "Done"
    /\ \E k \in 1..Len(input.groups) :
          /\ Len(ResolvedMembers(input, k)) = 3
          /\ ResolvedMembers(input, k)[1] > ResolvedMembers(input, k)[2]
          /\ \E f \in analysis.icons :
                /\ IsIcoOf(f, ResolvedMembers(input, k))
                /\ Len(f) = 6 + 48 + 12

(***************************************************************************)
(* C19                                                                     *)
(***************************************************************************)
\* C19: extract_pe_icons emits an asset for an icon group exactly when one
\* of its directory entries names an indexed icon image: a group none of
\* whose members resolves, or whose bytes are out of range or truncated, is
\* skipped without an error, and the entries of a group that do not resolve
\* are left out of its file while the group's other members and the other
\* groups are emitted.
C19_EmittedIffResolved ==
    (IsIconInput(input) /\ pc = "Done")
    => /\ analysis.status = "Ok"
       /\ \A k \in 1..Len(input.groups) :
             ResolvedMembers(input, k) # <<>>
             <=> \E f \in analysis.icons : IsIcoOf(f, ResolvedMembers(input, k))
       /\ \A f \in analysis.icons :
             \E k \in 1..Len(input.groups) :
                /\ ResolvedMembers(input, k) # <<>>
                /\ IsIcoOf(f, ResolvedMembers(input, k))

C19_Witness ==
    /\ IsIconInput(input) /\ pc = "Done" /\ analysis.status = "Ok"
    /\ Len(input.groups) = 2
    /\ Cardinality(analysis.icons) = 1
    /\ \E k \in 1..2 :
          /\ ResolvedMembers(input, k) = <<>>
          /\ input.groups[k].members # <<>>
          /\ ResolvedMembers(input, 3 - k) # <<>>
          /\ Len(ResolvedMembers(input, 3 - k)) < Len(input.groups[3 - k].members)

(***************************************************************************)
(* System::Int64Op on its own: evaluate_operation over a table of         *)
(* operands (int64op.rs 18-100).                                          *)
(***************************************************************************)
\* the operands, in ascending order: the decimal text, the eight bytes, the
\* place in the order, the value modulo 64 and, for the operands of at most
\* three digits, the value itself
Int64Operands == <<
    [text |-> "-9223372036854775808", value |-> <<0, 0, 0, 0, 0, 0, 0, 128>>,
     rank |-> 1, count |-> 0, int |-> <<>>],
    [text |-> "-9223372036854775807", value |-> <<1, 0, 0, 0, 0, 0, 0, 128>>,
     rank |-> 2, count |-> 1, int |-> <<>>],
    [text |-> "-4294967297", value |-> <<255, 255, 255, 255, 254, 255, 255, 255>>,
     rank |-> 3, count |-> 63, int |-> <<>>],
    [text |-> "-157", value |-> <<99, 255, 255, 255, 255, 255, 255, 255>>,
     rank |-> 4, count |-> 35, int |-> <<-157>>],
    [text |-> "-8", value |-> <<248, 255, 255, 255, 255, 255, 255, 255>>,
     rank |-> 5, count |-> 56, int |-> <<-8>>],
    [text |-> "-7", value |-> <<249, 255, 255, 255, 255, 255, 255, 255>>,
     rank |-> 6, count |-> 57, int |-> <<-7>>],
    [text |-> "-1", value |-> <<255, 255, 255, 255, 255, 255, 255, 255>>,
     rank |-> 7, count |-> 63, int |-> <<-1>>],
    [text |-> "0", value |-> <<0, 0, 0, 0, 0, 0, 0, 0>>,
     rank |-> 8, count |-> 0, int |-> <<0>>],
    [text |-> "1", value |-> <<1, 0, 0, 0, 0, 0, 0, 0>>,
     rank |-> 9, count |-> 1, int |-> <<1>>],
    [text |-> "3", value |-> <<3, 0, 0, 0, 0, 0, 0, 0>>,
     rank |-> 10, count |-> 3, int |-> <<3>>],
    [text |-> "5", value |-> <<5, 0, 0, 0, 0, 0, 0, 0>>,
     rank |-> 11, count |-> 5, int |-> <<5>>],
    [text |-> "62", value |-> <<62, 0, 0, 0, 0, 0, 0, 0>>,
     rank |-> 12, count |-> 62, int |-> <<62>>],
    [text |-> "63", value |-> <<63, 0, 0, 0, 0, 0, 0, 0>>,
     rank |-> 13, count |-> 63, int |-> <<63>>],
    [text |-> "64", value |-> <<64, 0, 0, 0, 0, 0, 0, 0>>,
     rank |-> 14, count |-> 0, int |-> <<64>>],
    [text |-> "65", value |-> <<65, 0, 0, 0, 0, 0, 0, 0>>,
     rank |-> 15, count |-> 1, int |-> <<65>>],
    [text |-> "157", value |-> <<157, 0, 0, 0, 0, 0, 0, 0>>,
     rank |-> 16, count |-> 29, int |-> <<157>>],
    [text |-> "526355", value |-> <<19, 8, 8, 0, 0, 0, 0, 0>>,
     rank |-> 17, count |-> 19, int |-> <<>>],
    [text |-> "1565487", value |-> <<47, 227, 23, 0, 0, 0, 0, 0>>,
     rank |-> 18, count |-> 47, int |-> <<>>],
    [text |-> "4294967297", value |-> <<1, 0, 0, 0, 1, 0, 0, 0>>,
     rank |-> 19, count |-> 1, int |-> <<>>],
    [text |-> "4611686018427387904", value |-> <<0, 0, 0, 0, 0, 0, 0, 64>>,
     rank |-> 20, count |-> 0, int |-> <<>>],
    [text |-> "9223372036854775807", value |-> <<255, 255, 255, 255, 255, 255, 255, 127>>,
     rank |-> 21, count |-> 63, int |-> <<>>] >>

\* the binary operators evaluate_operation knows
Int64Operators ==
    {"+", "-", "*", "/", "%", "<<", ">>", ">>>", "|", "&", "^", "||", "&&",
     "<", "=", ">"}

\* the unary operators, and an operation that is neither
Int64Unary == {"~", "!"}
Int64Unknown == {"?"}

\* an operation as the script may pad it
Int64Padded == {" - "}

Int64Inputs ==
    {[int64op |-> TRUE, operation |-> op, arg1 |-> Int64Operands[i],
      arg2 |-> <<Int64Operands[j]>>] :
        op \in Int64Operators \cup Int64Unary \cup Int64Unknown
               \cup Int64Padded,
        i \in DOMAIN Int64Operands, j \in DOMAIN Int64Operands}
    \cup
    {[int64op |-> TRUE, operation |-> op, arg1 |-> Int64Operands[i],
      arg2 |-> <<>>] :
        op \in Int64Unary \cup Int64Unknown, i \in DOMAIN Int64Operands}

IsInt64Input(in) == "int64op" \in DOMAIN in

InitInt64Op ==
    /\ input \in Int64Inputs
    /\ pc = "Int64Op"
    /\ pos = 0
    /\ invoked = <<>>
    /\ exe = NoExe
    /\ analysis = Running
    /\ stack = <<>>
    /\ variables = EmptyMap
    /\ ip = 1
    /\ MOCK_STRUCTS = EmptyMap
    /\ STORED_REGISTERS = <<>>
    /\ overflow_checks \in BOOLEAN

\* one call of evaluate_operation; a panic leaves no result
EvaluateOperation ==
    /\ pc = "Int64Op"
    /\ exe' = [result |->
                 evaluate_operation(input.operation, input.arg1.value,
                                    IF input.arg2 = <<>> THEN <<>>
                                    ELSE <<input.arg2[1].value>>)]
    /\ analysis' = IF exe'.result = <<>> THEN Panicked ELSE analysis
    /\ pc' = "Done"
    /\ UNCHANGED <<input, pos, invoked, vm, statics, profile>>

NextInt64Op == EvaluateOperation

SpecInt64Op == InitInt64Op /\ [][NextInt64Op]_vars

(***************************************************************************)
(* C20                                                                     *)
(***************************************************************************)
\* the i64 a string of decimal digits denotes, six digits at a time
RECURSIVE DecimalValue(_)
DecimalValue(digits) ==
    IF Len(digits) <= 6 THEN I64(DigitsValue(digits, 0))
    ELSE wrapping_add(
            wrapping_mul(DecimalValue(SubSeq(digits, 1, Len(digits) - 6)),
                         I64(1000000)),
            I64(DigitsValue(SubSeq(digits, Len(digits) - 5, Len(digits)), 0)))

\* the i64 a decimal rendering denotes
ValueOf(text) ==
    IF Ch(text, 1) = "-"
    THEN wrapping_neg(DecimalValue(SubSeq(text, 2, Len(text))))
    ELSE DecimalValue(text)

\* a decimal rendering: digits after an optional sign, no needless zero
IsDecimal(text) ==
    LET digits == IF Ch(text, 1) = "-" THEN SubSeq(text, 2, Len(text))
                  ELSE text
    IN  /\ digits # ""
        /\ \A i \in 1..Len(digits) : IsDigit(Ch(digits, i))
        /\ Ch(digits, 1) = "0" => text = "0"

\* 2^k as an i64, 0 <= k <= 63
PowerOfTwo(k) ==
    [i \in 1..8 |-> IF i = (k \div 8) + 1 THEN Pow2(k % 8) ELSE 0] \o <<>>

\* a times 2^k, wrapping
Doubled(a, k) == wrapping_mul(a, PowerOfTwo(k))

\* r is a divided by 2^k and rounded down, 0 <= k <= 63
IsFloorShift(a, k, r) ==
    IF k = 0 THEN r = a
    ELSE IF k = SHIFT_BITS - 1 THEN r = (IF IsNegative(a) THEN I64(-1) ELSE I64(0))
    ELSE /\ ~IsNegative(wrapping_sub(a, Doubled(r, k)))
         /\ Less(wrapping_sub(a, Doubled(r, k)), Doubled(I64(1), k))
         /\ Less(r, Doubled(I64(1), SHIFT_BITS - 1 - k))
         /\ ~Less(r, wrapping_neg(Doubled(I64(1), SHIFT_BITS - 1 - k)))

\* r is a, taken as unsigned, divided by 2^k and rounded down
IsLogicalShift(a, k, r) ==
    IF k = 0 \/ ~IsNegative(a) THEN IsFloorShift(a, k, r)
    ELSE IsFloorShift(a, k, wrapping_sub(r, Doubled(I64(1), SHIFT_BITS - k)))

\* the quotient of integers a by b # 0 truncated toward zero
Truncated(a, b) ==
    IF (a < 0) = (b < 0) THEN (IF a < 0 THEN -a ELSE a)
                                \div (IF b < 0 THEN -b ELSE b)
    ELSE -((IF a < 0 THEN -a ELSE a) \div (IF b < 0 THEN -b ELSE b))

\* what the operator gives on two operands of at most three digits
SmallResult(op, a, b) ==
    CASE op = "+" -> <<a + b>>
      [] op = "-" -> <<a - b>>
      [] op = "*" -> <<a * b>>
      [] op = "/" /\ b # 0 -> <<Truncated(a, b)>>
      [] op = "%" /\ b # 0 -> <<a - b * Truncated(a, b)>>
      [] OTHER -> <<>>

\* results that wrap
WrapAnchors ==
    { <<"+", "5", "5", "10">>,
      <<"+", "9223372036854775807", "1", "-9223372036854775808">>,
      <<"-", "-9223372036854775808", "1", "9223372036854775807">>,
      <<"*", "526355", "1565487", "824001909885">>,
      <<"*", "-9223372036854775808", "-1", "-9223372036854775808">>,
      <<"*", "9223372036854775807", "9223372036854775807", "1">>,
      <<"*", "4294967297", "4294967297", "8589934593">>,
      <<"*", "4611686018427387904", "3", "-4611686018427387904">>,
      <<"/", "-9223372036854775808", "-1", "-9223372036854775808">>,
      <<"%", "-9223372036854775808", "-1", "0">>,
      <<"<<", "1", "62", "4611686018427387904">>,
      <<"<<", "3", "64", "3">>,
      <<">>", "4611686018427387904", "62", "1">>,
      <<">>", "-8", "65", "-4">>,
      <<">>>", "-9223372036854775808", "1", "4611686018427387904">>,
      <<">>>", "-1", "64", "-1">>,
      <<">>>", "-1", "-1", "1">> }

\* text is what operator op gives on the operands a and b
Int64Holds(op, a, b, text) ==
    LET r == ValueOf(text)
        other(o) == ValueOf(evaluate_operation(o, a.value, <<b.value>>)[1])
    IN  /\ IsDecimal(text)
        /\ to_string(r) = text
        /\ \A anchor \in WrapAnchors :
              (anchor[1] = op /\ anchor[2] = a.text /\ anchor[3] = b.text)
              => text = anchor[4]
        /\ (a.int # <<>> /\ b.int # <<>>
            /\ SmallResult(op, a.int[1], b.int[1]) # <<>>)
           => text = ToString(SmallResult(op, a.int[1], b.int[1])[1])
        /\ CASE op = "+" -> wrapping_sub(r, b.value) = a.value
             [] op = "-" -> wrapping_add(r, b.value) = a.value
             [] op = "*" ->
                  /\ b.text = "0" => text = "0"
                  /\ b.text = "1" => text = a.text
                  /\ b.text = "-1" => r = wrapping_neg(a.value)
             [] op \in {"/", "%"} /\ b.text = "0" -> text = "0"
             [] op \in {"/", "%"} /\ b.text # "0" ->
                  LET q == IF op = "/" THEN r ELSE other("/")
                      m == IF op = "%" THEN r ELSE other("%")
                  IN  /\ wrapping_add(wrapping_mul(q, b.value), m) = a.value
                      /\ BelowFrom(Magnitude(m), Magnitude(b.value), 8)
                      /\ m = I64(0) \/ IsNegative(m) = IsNegative(a.value)
             [] op = "<<" -> r = Doubled(a.value, b.count)
             [] op = ">>" -> IsFloorShift(a.value, b.count, r)
             [] op = ">>>" -> IsLogicalShift(a.value, b.count, r)
             [] op = "|" ->
                  \A i \in 0..(SHIFT_BITS - 1) :
                     Bit(r, i) = 1 <=> (Bit(a.value, i) = 1 \/ Bit(b.value, i) = 1)
             [] op = "&" ->
                  \A i \in 0..(SHIFT_BITS - 1) :
                     Bit(r, i) = 1 <=> (Bit(a.value, i) = 1 /\ Bit(b.value, i) = 1)
             [] op = "^" ->
                  \A i \in 0..(SHIFT_BITS - 1) :
                     Bit(r, i) = 1 <=> (Bit(a.value, i) # Bit(b.value, i))
             [] op = "||" ->
                  text = IF a.text # "0" \/ b.text # "0" THEN "1" ELSE "0"
             [] op = "&&" ->
                  text = IF a.text # "0" /\ b.text # "0" THEN "1" ELSE "0"
             [] op = "<" -> text = IF a.rank < b.rank THEN "1" ELSE "0"
             [] op = "=" -> text = IF a.rank = b.rank THEN "1" ELSE "0"
             [] op = ">" -> text = IF a.rank > b.rank THEN "1" ELSE "0"
             [] OTHER -> text = a.text

\* C20: for every pair of 64-bit operands and each binary operator
\* + - * / % << >> >>> | & ^ || && < = > evaluate_operation never traps and
\* returns the decimal rendering of the two's-complement wraparound result:
\* division and modulo by zero yield 0, i64::MIN / -1 wraps, >> is an
\* arithmetic and >>> a logical shift ("+" over (5,5) gives 10, ">>>" over
\* (i64::MIN, 1) gives 4611686018427387904), the shift count taken modulo 64
\* when it lies outside 0..63; an unknown operator yields the first operand.
C20_WrapsAndNeverTraps ==
    (IsInt64Input(input) /\ pc = "Done" /\ input.arg2 # <<>>)
    => /\ exe.result # <<>>
       /\ Int64Holds(trim(input.operation), input.arg1, input.arg2[1],
                     exe.result[1])

(***************************************************************************)
(* The simpler System plugin (entry/system/mod.rs, entry/system/call.rs). *)
(***************************************************************************)
\* call.rs 75-78: the return spec split at '.' and at whitespace, the empty
\* pieces dropped
RECURSIVE SpecParts(_)
SpecParts(s) ==
    LET seps == {j \in 1..Len(s) : Ch(s, j) = "." \/ IsSpace(Ch(s, j))}
    IN  IF s = "" THEN <<>>
        ELSE IF seps = {} THEN <<s>>
        ELSE (IF MinOf(seps) > 1 THEN <<SubSeq(s, 1, MinOf(seps) - 1)>>
              ELSE <<>>)
             \o SpecParts(SubSeq(s, MinOf(seps) + 1, Len(s)))

\* call.rs 28-69: the mocked result, chosen by what the call string contains
simple_result(api_call) ==
    IF contains(api_call, "kernel32::")
    THEN (IF contains(api_call, "GetTickCount") THEN "0"
          ELSE IF contains(api_call, "GetLocalTime")
                  \/ contains(api_call, "GetSystemTime") THEN "0"
          ELSE IF contains(api_call, "GetVersionEx") THEN "0"
          ELSE IF contains(api_call, "GetCurrentProcess") THEN "-1"
          ELSE IF contains(api_call, "IsWow64Process") THEN "0"
          ELSE "0")
    ELSE IF contains(api_call, "advapi32::")
    THEN (IF contains(api_call, "OpenSCManager") THEN "1"
          ELSE IF contains(api_call, "OpenService") THEN "1"
          ELSE IF contains(api_call, "QueryServiceStatus") THEN "1"
          ELSE IF contains(api_call, "CloseServiceHandle") THEN "1"
          ELSE "0")
    ELSE IF contains(api_call, "shell32::")
    THEN (IF contains(api_call, "SHChangeNotify") THEN "0" ELSE "0")
    ELSE IF starts_with(api_call, "*") /\ contains(api_call, "(") THEN "0"
    ELSE "0"

\* call.rs 84-104: the result stored at the destination; a register is
\* named by the one digit after its letter
simple_store(st, destination, result) ==
    IF destination = "s" THEN Push(st, result)
    ELSE IF starts_with(destination, "r") \/ starts_with(destination, "R")
    THEN (IF Len(destination) >= 2 /\ IsDigit(Ch(destination, 2))
          THEN VarInsert(st,
                   IndexOf(DIGITS, Ch(destination, 2)) - 1
                   + (IF starts_with(destination, "R") THEN 10 ELSE 0),
                   result)
          ELSE st)
    ELSE st

\* call.rs 14-25, 72-109 on the trimmed return spec
simple_return(st, return_spec, result) ==
    IF return_spec # ""
       /\ (IsAlpha(Ch(return_spec, 1)) \/ Ch(return_spec, 1) = ".")
       /\ Len(SpecParts(return_spec)) >= 2
    THEN simple_store(st, SpecParts(return_spec)[2], result)
    ELSE st

\* entry/system/call.rs evaluate
simple_call_evaluate(st, api_call) ==
    simple_return(st,
        trim(IF rfind(api_call, ")") > 0
             THEN SubSeq(api_call, rfind(api_call, ")") + 1, Len(api_call))
             ELSE ""),
        simple_result(api_call))

\* entry/system/mod.rs evaluate
simple_evaluate(st, function_str) ==
    CASE function_str = "Call" ->
            IF st.stack = <<>> THEN st
            ELSE simple_call_evaluate(Pop(st), st.stack[Len(st.stack)])
      [] function_str = "Free" -> Pop(st)
      [] function_str = "Int64Op" ->
            system_int64op(int64op_evaluate(st)[1], int64op_evaluate(st)[2])
      [] OTHER -> st

(***************************************************************************)
(* The System plugin on its own: plugin calls evaluated on an NsisState   *)
(* that already holds operands and registers, by either implementation.   *)
(***************************************************************************)
\* register files the calls are evaluated on
Registers(r0, r1) == MapPut(MapPut(EmptyMap, 0, r0), 1, r1)

SystemRegisters ==
    { EmptyMap, Registers("5", "3"), Registers("0", "64"),
      Registers("-7", "1"), MapPut(Registers("1", "2"), 13, "x") }

\* operand stacks the calls are evaluated on, top of stack last
SystemStacks == { <<>>, <<"a">>, <<"a", "b">>, <<"a", "b", "c">> }

\* a script evaluated by implementation impl on the given NsisState
SystemRun(impl, stack0, variables0, script) ==
    [system |-> TRUE, implementation |-> impl, stack0 |-> stack0,
     variables0 |-> variables0, script |-> script]

\* System::Int64Op with each operation
Int64Scripts ==
    { <<PluginCall("Int64Op", <<op>>)>> :
        op \in {"~", "!", " ~ ", "+", "-", ">>>", "?"} }

\* register designators written in scripts
Designators == {"r0", "r3", "R3", "r13", "r19", "R0", "R9", "R12", "r25"}

\* a call whose result goes to the register d
ReturnTo(d) == "kernel32::GetCurrentProcess()i." \o d

\* System::Call storing to each designator; System::Store saving and
\* loading each designator
DesignatorScripts ==
    { <<PluginCall("Call", <<ReturnTo(d)>>)>> : d \in Designators }
    \cup { <<PluginCall("Store", <<"S " \o d>>)>> : d \in Designators }
    \cup { <<PluginCall("Store", <<"S r0">>),
             PluginCall("Store", <<"L " \o d>>)>> : d \in Designators }


\* calls with parameters read from the stack: the call string, the number k
\* of parameters whose source is the stack, and the values the call stores
\* to stack destinations, in the order stored
StackCall(call, k, pushed) == [call |-> call, k |-> k, pushed |-> pushed]

StackCalls ==
    { StackCall("kernel32::GetTickCount()i.s", 0, <<"0">>),
      StackCall("user32::MessageBox(i 0, t s, t s, i 0)i.r0", 2, <<>>),
      StackCall("kernel32::Sleep(i s)i.s", 1, <<"0">>),
      StackCall("kernel32::lstrcat(t s, t s, t s)", 3, <<>>),
      StackCall("kernel32::GetCurrentProcess(i s, i ss)i.s", 2, <<"-1">>),
      StackCall("advapi32::OpenService(i r0, t s, i 0x0004)i.s", 1, <<"1">>),
      StackCall("kernel32::IsWow64Process2(i -1, *i ss, *i .s)i.s", 1,
                <<"34404", "34404", "1">>),
      StackCall("Beep(i s, i s)", 2, <<>>) }

StackScripts == { <<PluginCall("Call", <<c.call>>)>> : c \in StackCalls }


\* call strings no mock matches or that are not well formed: unknown module
\* or function, missing or unbalanced parentheses in either order,
\* unterminated quotes, the struct form
OddCalls ==
    { "", "Foo", "nomodule::", "::", "kernel32::Nope()i.s",
      "unknown::f(i 0)i.s", "user32::GetDC(i 0)i.r0",
      "kernel32::GetTickCount(i.s", "kernel32::GetTickCount)i.s",
      "kernel32::f)(i.s", "f(t 'abc)i.s", "f(t \"a, i s)i.s",
      "*(i.r0", "*)i.r0", "*)(", "*r0)(i.r1", "*(&i4)i.s", "*x(i.r0)",
      "*0(i.s).s" }

\* the unmapped calls among them that name the stack as return destination
UnmappedToStack ==
    { "kernel32::Nope()i.s", "unknown::f(i 0)i.s", "f(t 'abc)i.s" }

\* System::Call with each of them, System::Call and System::Free with nothing
\* pushed, and the functions evaluate does not implement
OddScripts ==
    { <<PluginCall("Call", <<c>>)>> : c \in OddCalls }
    \cup { <<PluginCall(f, <<>>)>> : f \in {"Call", "Free", "Store"} }
    \cup { <<PluginCall(f, <<"x">>)>> : f \in {"Get", "Alloc", "Copy"} }


\* WOW64 queries: the call string and the registers named as output
\* destination of its pointer-typed parameters
WowCall(call, outputs) == [call |-> call, outputs |-> outputs]

WowCalls ==
    { WowCall("kernel32::IsWow64Process(p -1, *i .r0)i.r1", {0}),
      WowCall("kernel32::IsWow64Process(i s, *i .r0)", {0}),
      WowCall("kernel32::IsWow64Process(p -1, *b .r0)i.r1", {0}),
      WowCall("kernel32::IsWow64Process2(p -1, *i .r0, *i .r1)i.R3", {0, 1}),
      WowCall("kernel32::IsWow64Process2(p -1, *w .r0, *w .r1)", {0, 1}) }

WowScripts == { <<PluginCall("Call", <<c.call>>)>> : c \in WowCalls }


\* calls both implementations have a mock for
MockedCalls ==
    { "kernel32::GetTickCount()i.r0", "kernel32::GetCurrentProcess()i.s",
      "kernel32::GetVersionEx(ir0)i.r1", "kernel32::GetLocalTime(ir0)i.s",
      "advapi32::OpenSCManager(i 0, i 0, i 1)i.r2",
      "advapi32::CloseServiceHandle(i r2)i.s",
      "shell32::SHChangeNotify(i 0, i 0, i 0, i 0)i.r0",
      "*(&i4)i.r0" }

MockedScripts == { <<PluginCall("Call", <<c>>)>> : c \in MockedCalls }


\* the known folder GUIDs and the symbolic path of each
KnownFolder(guid, path) == [guid |-> guid, path |-> path]

KnownFolders ==
    { KnownFolder(FOLDERID_UserProgramFiles, "%LocalAppData%\\Programs"),
      KnownFolder("{F1B32785-6FBA-4FCF-9D55-7B8E7F157091}", "%LocalAppData%"),
      KnownFolder("{3EB685DB-65F9-4CF6-A03A-E3EF65729F3D}", "%AppData%"),
      KnownFolder("{905E63B6-C1BF-494E-B29C-65B732D3D21A}", "%ProgramFiles%"),
      KnownFolder("{6D809377-6AF0-444B-8957-A3773F02200E}", "%ProgramFiles%"),
      KnownFolder("{7C5A40EF-A0FB-4BFC-874A-C0F2E0B9FA8E}",
                  "%ProgramFiles(x86)%") }

\* GUIDs the table does not hold
UnknownFolders ==
    { "{00000000-0000-0000-0000-000000000000}",
      "{B4BFCC3A-DB2C-424C-B029-7FE99A87C641}" }

\* the flags parameter, a literal or read from the stack
FolderFlags == {"i 0", "i s"}

\* SHGetKnownFolderPath with the path pointer stored to register 1 and the
\* result to register 0
FolderCall(guid, flags) ==
    "shell32::SHGetKnownFolderPath(g \"" \o guid \o "\", " \o flags
        \o ", p 0, *p .r1)i.r0"

\* the call, then the struct read through register 1
FolderScripts ==
    { <<PluginCall("Call", <<FolderCall(guid, flags)>>),
        PluginCall("Call", <<CALL_READ_FOLDER>>)>> :
        guid \in {f.guid : f \in KnownFolders} \cup UnknownFolders,
        flags \in FolderFlags }


\* register lists of System::Store: the text and the slots it names, in
\* order
StoreList(text, slots) == [text |-> text, slots |-> slots]

StoreLists ==
    { StoreList("", <<0, 1, 2, 3, 4, 5, 6, 7, 8, 9>>),
      StoreList(" r0", <<0>>),
      StoreList(" r0 r1", <<0, 1>>),
      StoreList(" r3 R3", <<3, 13>>),
      StoreList(" r1 r0", <<1, 0>>) }

\* register writes between a save and a load
RegisterWrites ==
    { <<ReturnTo("r0"), ReturnTo("r1")>>,
      <<ReturnTo("R3"), "kernel32::GetTickCount()i.r3">>,
      <<"advapi32::OpenService(i 0, t 'a', i 4)i.r1", ReturnTo("r0")>>,
      <<"kernel32::GetTickCount()i.r2", "kernel32::GetTickCount()i.s">> }

\* save, two writes, load with the same list
SaveLoadScripts ==
    { <<PluginCall("Store", <<"S" \o l.text>>),
        PluginCall("Call", <<w[1]>>), PluginCall("Call", <<w[2]>>),
        PluginCall("Store", <<"L" \o l.text>>)>> :
        l \in StoreLists, w \in RegisterWrites }

\* save, a write, a second save of register 3 alone, load
SaveTwiceScripts ==
    { <<PluginCall("Store", <<"S" \o l.text>>),
        PluginCall("Call", <<"kernel32::GetCurrentProcess()i.r3">>),
        PluginCall("Store", <<"S r3">>),
        PluginCall("Store", <<"L" \o l.text>>)>> : l \in StoreLists }


\* every script evaluated
SystemScripts ==
    Int64Scripts
    \cup DesignatorScripts
    \cup StackScripts
    \cup OddScripts
    \cup WowScripts
    \cup MockedScripts
    \cup FolderScripts
    \cup SaveLoadScripts
    \cup SaveTwiceScripts

SystemInputs ==
    { SystemRun(impl, s, v, script) :
        impl \in {"plugins", "simple"}, s \in SystemStacks,
        v \in SystemRegisters, script \in SystemScripts }

IsSystemInput(in) == "system" \in DOMAIN in

InitSystem ==
    /\ input \in SystemInputs
    /\ pc = "System"
    /\ pos = 0
    /\ invoked = <<>>
    /\ exe = [before |-> <<>>]
    /\ analysis = Running
    /\ stack = input.stack0
    /\ variables = input.variables0
    /\ ip = 1
    /\ MOCK_STRUCTS = EmptyMap
    /\ STORED_REGISTERS = <<>>
    /\ overflow_checks \in BOOLEAN

\* one plugin call evaluated by plugins/system/mod.rs; exe.before keeps the
\* NsisState and the thread-locals the call was entered with
SystemStep ==
    /\ pc = "System"
    /\ input.implementation = "plugins"
    /\ ip <= Len(input.script)
    /\ AfterCall(EvaluateCall(VmState, input.script[ip]))
    /\ exe' = [before |-> <<VmState>>]
    /\ UNCHANGED <<input, pos, invoked>>

\* one plugin call evaluated by entry/system/mod.rs
SimpleStep ==
    /\ pc = "System"
    /\ input.implementation = "simple"
    /\ ip <= Len(input.script)
    /\ AfterCall(simple_evaluate(PushAll(VmState, input.script[ip].push),
                                 input.script[ip].function))
    /\ exe' = [before |-> <<VmState>>]
    /\ UNCHANGED <<input, pos, invoked>>

NextSystem == SystemStep \/ SimpleStep

SpecSystem == InitSystem /\ [][NextSystem]_vars

\* the plugin call just evaluated, and the NsisState after it
LastCall == input.script[ip - 1]
Called(function) ==
    IsSystemInput(input) /\ ip > 1 /\ LastCall.function = function
VmNow ==
    [VmState EXCEPT !.panic = (analysis.status = "Panic")]

(***************************************************************************)
(* C21                                                                     *)
(***************************************************************************)
\* C21: when System::Int64Op is evaluated through the interpreter with the
\* unary operator ~ or !, the value pushed on the operand stack is the
\* bitwise complement, respectively the logical negation (1 if the operand
\* is 0, else 0), of the first operand (register 0) alone.
C21_UnaryThroughInterpreter ==
    (Called("Int64Op") /\ trim(LastCall.push[1]) \in {"~", "!"})
    => LET arg1 == get_int(exe.before[1], 0)
       IN  /\ analysis.status # "Panic"
           /\ stack = exe.before[1].stack
                        \o << IF trim(LastCall.push[1]) = "~"
                              THEN ToString(-arg1 - 1)
                              ELSE IF arg1 = 0 THEN "1" ELSE "0" >>

(***************************************************************************)
(* C22                                                                     *)
(***************************************************************************)
\* the slot a designator names in the flat register space: rN is N, RN is
\* N + 10
Slot(d) ==
    DigitsValue(SubSeq(d, 2, Len(d)), 0) + (IF Ch(d, 1) = "R" THEN 10 ELSE 0)

\* the registers the last call changed
Written ==
    {i \in DOMAIN variables : VarGet(exe.before[1], i) # <<variables[i]>>}

\* C22: in the general implementation every register designator resolves
\* into the flat 20-slot register space, rN to slot N and RN to slot N+10,
\* and System::Call (parse_register) and System::Store (parse_register_name)
\* resolve the same designator to the same slot: a call returning to d
\* writes only slot Slot(d), Store S d saves the value of slot Slot(d), and
\* Store L d writes only slot Slot(d); every slot written is in 0..19.
C22_DesignatorsResolveAlike ==
    \A d \in Designators :
        (IsSystemInput(input) /\ ip > 1 /\ input.implementation = "plugins")
        => /\ (LastCall = PluginCall("Call", <<ReturnTo(d)>>)
               => /\ Written \subseteq 0..19
                  /\ Written = {Slot(d)}
                  /\ variables[Slot(d)] = "-1")
           /\ (LastCall = PluginCall("Store", <<"S " \o d>>)
               => STORED_REGISTERS
                    = << IF VarGet(VmState, Slot(d)) = <<>> THEN ""
                         ELSE variables[Slot(d)] >>)
           /\ (LastCall = PluginCall("Store", <<"L " \o d>>)
               => /\ Written \subseteq 0..19
                  /\ Written \subseteq {Slot(d)}
                  /\ Slot(d) \in DOMAIN variables
                  /\ variables[Slot(d)] = STORED_REGISTERS[1])

\* the designators of the documented ranges r0..r19 and R0..R9
Documented == {"r0", "r3", "R3", "r13", "r19", "R0", "R9"}

\* C22 on the documented designators only
C22_DocumentedResolveAlike ==
    \A d \in Documented :
        (IsSystemInput(input) /\ ip > 1 /\ input.implementation = "plugins")
        => /\ (LastCall = PluginCall("Call", <<ReturnTo(d)>>)
               => Written = {Slot(d)} /\ Slot(d) \in 0..19)
           /\ (LastCall = PluginCall("Store", <<"S " \o d>>)
               => STORED_REGISTERS
                    = << IF VarGet(VmState, Slot(d)) = <<>> THEN ""
                         ELSE variables[Slot(d)] >>)
           /\ (LastCall = PluginCall("Store", <<"L " \o d>>)
               => /\ Written \subseteq {Slot(d)}
                  /\ variables[Slot(d)] = STORED_REGISTERS[1])

(***************************************************************************)
(* C23                                                                     *)
(***************************************************************************)
\* C23: when the general interpreter evaluates a System::Call with k
\* stack-sourced parameters on a stack of at least k operands, it pops
\* exactly one operand per such parameter, used by the mock or not, before
\* any result is stored: the stack after the call is the stack before with
\* its top k operands removed, followed by the values stored to stack
\* destinations, so its depth is the depth before minus k plus the number
\* of those values.
C23_PopsPerStackSource ==
    \A c \in StackCalls :
        (/\ Called("Call")
         /\ input.implementation = "plugins"
         /\ LastCall.push = <<c.call>>
         /\ Len(exe.before[1].stack) >= c.k)
        => /\ stack = SubSeq(exe.before[1].stack, 1,
                             Len(exe.before[1].stack) - c.k) \o c.pushed
           /\ Len(stack) = Len(exe.before[1].stack) - c.k + Len(c.pushed)

\* two operands popped for a mock that ignores them, then the result pushed
C23_Witness ==
    /\ Called("Call")
    /\ input.implementation = "plugins"
    /\ LastCall.push = <<"kernel32::GetCurrentProcess(i s, i ss)i.s">>
    /\ exe.before[1].stack = <<"a", "b", "c">>
    /\ stack = <<"a", "-1">>

(***************************************************************************)
(* C24                                                                     *)
(***************************************************************************)
\* C24: evaluating a System::Call never errors or traps, whatever the call
\* string (unknown module or function, missing or unbalanced parentheses in
\* either order, unterminated quotes, struct form, nothing on the operand
\* stack), and an unmapped call produces the constant result "0".
C24_NeverErrors ==
    Called("Call")
    => /\ analysis.status # "Panic"
       /\ \A c \in UnmappedToStack :
              LastCall.push = <<c>>
              => stack = exe.before[1].stack \o <<"0">>

\* the struct forms whose ')' comes before their '('
ParenthesesReversed(call) ==
    /\ call.push # <<>>
    /\ starts_with(call.push[1], "*")
    /\ contains(call.push[1], "(")
    /\ rfind(call.push[1], ")") # 0
    /\ rfind(call.push[1], ")") < find(call.push[1], "(")

\* C24 on every call but those struct forms
C24_NeverErrorsInOrder ==
    (Called("Call") /\ ~ParenthesesReversed(LastCall))
    => /\ analysis.status # "Panic"
       /\ \A c \in UnmappedToStack :
              LastCall.push = <<c>>
              => stack = exe.before[1].stack \o <<"0">>

(***************************************************************************)
(* C25                                                                     *)
(***************************************************************************)
\* C25: after a WOW64 query (kernel32 IsWow64Process or IsWow64Process2)
\* the output destination of each pointer-typed parameter that has one
\* holds the value 0.
C25_WowOutputsZero ==
    \A c \in WowCalls :
        (Called("Call") /\ LastCall.push = <<c.call>>)
        => \A r \in c.outputs : VarGet(VmState, r) = <<"0">>

\* C25 for IsWow64Process with a "*i" parameter, evaluated by the general
\* implementation
C25_WowProcessZero ==
    \A c \in WowCalls :
        (/\ Called("Call")
         /\ input.implementation = "plugins"
         /\ LastCall.push = <<c.call>>
         /\ contains(c.call, "IsWow64Process(")
         /\ contains(c.call, "*i"))
        => \A r \in c.outputs : VarGet(VmState, r) = <<"0">>

(***************************************************************************)
(* C26                                                                     *)
(***************************************************************************)
\* the general implementation on the state the last call was entered with
General == EvaluateCall(exe.before[1], LastCall)

\* C26: what the simpler System::Call implementation does is a subset of
\* what the general one does on the same call string and starting state:
\* every register it writes the general one writes with the same value,
\* and it leaves the stack as it was or as the general one leaves it.
C26_SimplerIsSubset ==
    (Called("Call") /\ input.implementation = "simple")
    => /\ \A i \in Written : VarGet(General, i) = <<variables[i]>>
       /\ stack \in {exe.before[1].stack, General.stack}
       /\ analysis.status # "Panic"

\* the calls on which the two implementations store the same return value
SameMock(call) ==
    call.push # <<>>
    /\ call.push[1] \in
         { "kernel32::GetTickCount()i.r0", "kernel32::GetCurrentProcess()i.s",
           "kernel32::GetLocalTime(ir0)i.s", "kernel32::GetTickCount()i.s",
           "advapi32::OpenSCManager(i 0, i 0, i 1)i.r2",
           "advapi32::CloseServiceHandle(i r2)i.s",
           "shell32::SHChangeNotify(i 0, i 0, i 0, i 0)i.r0",
           "kernel32::Nope()i.s", "unknown::f(i 0)i.s",
           "user32::GetDC(i 0)i.r0" }

\* C26 on those calls
C26_SubsetOnSameMock ==
    (Called("Call") /\ input.implementation = "simple" /\ SameMock(LastCall))
    => /\ \A i \in Written : VarGet(General, i) = <<variables[i]>>
       /\ stack \in {exe.before[1].stack, General.stack}

(***************************************************************************)
(* C29                                                                     *)
(***************************************************************************)
\* C29: after SHGetKnownFolderPath is evaluated with one of the six known
\* folder GUIDs and a "*p" parameter whose destination is a register (here
\* register 1, the result going to register 0), that register holds a token
\* equal to the operand-stack depth at that moment (the operands read by
\* the call already popped), the struct side table maps the token to a
\* one-field struct holding the GUID's symbolic path, and the result is 0;
\* a subsequent struct read through that register stores the symbolic path
\* into the destination of the first field (register 2).  With an unknown
\* GUID the result is 1 and the side table, the stack below the operands
\* read and every register but the return destination are unchanged.
C29_KnownFolderToken ==
    (IsSystemInput(input) /\ input.implementation = "plugins" /\ ip > 1)
    => \A flags \in FolderFlags :
        /\ \A f \in KnownFolders :
            input.script[1].push = <<FolderCall(f.guid, flags)>>
            => /\ Len(stack)
                    = IF flags = "i s" /\ input.stack0 # <<>>
                      THEN Len(input.stack0) - 1 ELSE Len(input.stack0)
               /\ VarGet(VmState, 1) = <<ToString(Len(stack))>>
               /\ ToString(Len(stack)) \in DOMAIN MOCK_STRUCTS
               /\ MOCK_STRUCTS[ToString(Len(stack))] = <<f.path>>
               /\ VarGet(VmState, 0) = <<"0">>
               /\ (ip > 2 => VarGet(VmState, 2) = <<f.path>>)
        /\ \A guid \in UnknownFolders :
            input.script[1].push = <<FolderCall(guid, flags)>>
            => /\ VarGet(VmState, 0) = <<"1">>
               /\ MOCK_STRUCTS = EmptyMap
               /\ \A i \in DOMAIN variables \cup DOMAIN input.variables0 :
                      i # 0 => VarGet(VmState, i)
                                 = VarGet([variables |-> input.variables0], i)
               /\ stack = IF flags = "i s" /\ input.stack0 # <<>>
                          THEN SubSeq(input.stack0, 1, Len(input.stack0) - 1)
                          ELSE input.stack0

\* the path of FOLDERID_UserProgramFiles read back through the token 2,
\* minted on a stack of depth two after one operand was popped
C29_Witness ==
    /\ IsSystemInput(input) /\ input.implementation = "plugins" /\ ip = 3
    /\ input.script[1].push = <<FolderCall(FOLDERID_UserProgramFiles, "i s")>>
    /\ input.stack0 = <<"a", "b", "c">>
    /\ VarGet(VmState, 1) = <<"2">>
    /\ MOCK_STRUCTS["2"] = <<"%LocalAppData%\\Programs">>
    /\ VarGet(VmState, 2) = <<"%LocalAppData%\\Programs">>

(***************************************************************************)
(* C30                                                                     *)
(***************************************************************************)
\* the value a register holds, the empty string when it was never written
Held(registers, r) == IF r \in DOMAIN registers THEN registers[r] ELSE ""

\* the slots of a list as a set
Listed(l) == {l.slots[i] : i \in 1..Len(l.slots)}

\* C30: System::Store is a one-level save/restore of registers.  After
\* Store "S" with a register list (registers 0..9 when the list is empty),
\* register writes, and Store "L" with the same list, every listed register
\* holds the value it had when "S" was evaluated, and "L" leaves the
\* registers not listed unchanged; a later "S" replaces the earlier
\* snapshot entirely; neither form changes the operand stack beyond
\* popping its own argument.
C30_StoreSavesAndRestores ==
    (IsSystemInput(input) /\ input.implementation = "plugins" /\ ip > 1)
    => \A l \in StoreLists :
        /\ LastCall = PluginCall("Store", <<"S" \o l.text>>)
           => /\ STORED_REGISTERS
                   = [i \in 1..Len(l.slots) |-> Held(variables, l.slots[i])]
              /\ stack = exe.before[1].stack
              /\ variables = exe.before[1].variables
        /\ (input.script \in SaveLoadScripts
            /\ ip = 5 /\ LastCall = PluginCall("Store", <<"L" \o l.text>>))
           => /\ \A r \in Listed(l) :
                     Held(variables, r) = Held(input.variables0, r)
              /\ \A r \in (DOMAIN variables \cup DOMAIN exe.before[1].variables)
                            \ Listed(l) :
                     VarGet(VmState, r) = VarGet(exe.before[1], r)
              /\ stack = exe.before[1].stack
        /\ (input.script \in SaveTwiceScripts /\ ip > 3)
           => /\ STORED_REGISTERS = <<"-1">>
              /\ stack = input.stack0
              /\ (ip = 5 /\ LastCall = PluginCall("Store", <<"L" \o l.text>>)
                  => /\ Held(variables, l.slots[1]) = "-1"
                     /\ \A r \in (DOMAIN variables
                                   \cup DOMAIN exe.before[1].variables)
                                  \ {l.slots[1]} :
                            VarGet(VmState, r) = VarGet(exe.before[1], r))

\* registers 0 and 1 overwritten after the save and restored by the load
C30_Witness ==
    /\ IsSystemInput(input) /\ input.implementation = "plugins" /\ ip = 5
    /\ input.script[1] = PluginCall("Store", <<"S r0 r1">>)
    /\ input.script[2] = PluginCall("Call", <<ReturnTo("r0")>>)
    /\ input.variables0 = Registers("5", "3")
    /\ exe.before[1].variables[0] = "-1"
    /\ exe.before[1].variables[1] = "-1"
    /\ variables[0] = "5"
    /\ variables[1] = "3"

(***************************************************************************)
(* C27                                                                     *)
(***************************************************************************)
\* the MSI payloads the file entries of each container carry, loose or
\* inside the embedded archive
MsiPayloads(id) ==
    CASE id = "adv_msi" -> 1
      [] id = "adv_cert" -> 1
      [] id = "adv_two" -> 2
      [] id = "adv_arc" -> 2
      [] id = "adv_7z" -> 2
      [] OTHER -> 0

\* the Advanced Installer probe has accepted the file
AdvancedAccepted ==
    /\ ~IsInstallShieldInput(input)
    /\ invoked = <<"AdvancedInstaller">>
    /\ pc = "Collect"

\* C27: an Advanced Installer container yields exactly one record per
\* embedded MSI payload: the number of records equals the number of MSI
\* payloads its file entries carry, loose .msi entries and the entries of
\* the embedded .7z archive alike.
C27_OneRecordPerPayload ==
    AdvancedAccepted
    => Len(exe.installers) = MsiPayloads(input.data)

\* the containers whose MSI payloads are all loose or all in the archive
UNMIXED_CONTAINERS == {"adv_msi", "adv_cert", "adv_two", "adv_arc"}

\* C27 on those containers
C27_OneRecordPerPayloadUnmixed ==
    (AdvancedAccepted /\ input.data \in UNMIXED_CONTAINERS)
    => Len(exe.installers) = MsiPayloads(input.data)

\* two records from the archive that holds two MSI payloads
C27_ArchiveOfTwo ==
    /\ AdvancedAccepted
    /\ input.data = "adv_arc"
    /\ Len(exe.installers) = 2

(***************************************************************************)
(* .appinstaller resolution (msix_family/appinstaller.rs).  A document is *)
(* [well_formed, elements]: whether the text is XML, and the child        *)
(* elements of its root as [name, attributes], the attributes a sequence  *)
(* of <<name, value>> pairs.                                               *)
(***************************************************************************)
\* extensions::APPINSTALLER
APPINSTALLER == "appinstaller"

\* the value of an attribute: <<>> or <<value>>
Attribute(element, name) ==
    LET hits == {i \in 1..Len(element.attributes) :
                    element.attributes[i][1] = name}
    IN  IF hits = {} THEN <<>> ELSE <<element.attributes[MinOf(hits)][2]>>

\* an Option<MainBundle> / Option<MainPackage> field of AppInstaller read
\* from the document: [ok, value]; the element may be absent (default), but
\* an element without the Uri attribute is an error
OptionalElement(content, name) ==
    LET hits == {i \in 1..Len(content.elements) :
                    content.elements[i].name = name}
    IN  IF hits = {} THEN [ok |-> TRUE, value |-> <<>>]
        ELSE IF Attribute(content.elements[MinOf(hits)], "Uri") = <<>>
        THEN [ok |-> FALSE, value |-> <<>>]
        ELSE [ok |-> TRUE,
              value |-> <<[uri |-> Attribute(content.elements[MinOf(hits)],
                                             "Uri")[1]]>>]

\* from_str::<AppInstaller>(&content): <<>> on error, else <<AppInstaller>>
from_str(content) ==
    IF ~content.well_formed
       \/ ~OptionalElement(content, "MainBundle").ok
       \/ ~OptionalElement(content, "MainPackage").ok
    THEN <<>>
    ELSE <<[main_bundle |-> OptionalElement(content, "MainBundle").value,
            main_package |-> OptionalElement(content, "MainPackage").value]>>

\* variant: the package is preferred to the bundle
get_installer_url_PackageFirst(app) ==
    IF app.main_package # <<>> THEN <<app.main_package[1].uri>>
    ELSE IF app.main_bundle # <<>> THEN <<app.main_bundle[1].uri>>
    ELSE <<>>

\* AppInstaller::get_installer_url
get_installer_url(app) ==
    IF app.main_bundle # <<>> THEN <<app.main_bundle[1].uri>>
    ELSE IF app.main_package # <<>> THEN <<app.main_package[1].uri>>
    ELSE <<>>

\* the characters a URL scheme may hold after its first letter
IsSchemeChar(c) == IsAlpha(c) \/ IsDigit(c) \/ c \in {"+", "-", "."}

\* installer_url.parse::<Url>(): <<>> when the text has no scheme (a
\* relative reference), else the URL with its scheme in lower case
parse_url(text) ==
    LET colon == find(text, ":")
    IN  IF colon < 2 \/ ~IsAlpha(Ch(text, 1))
           \/ \E i \in 2..(colon - 1) : ~IsSchemeChar(Ch(text, i))
        THEN <<>>
        ELSE <<to_ascii_lowercase(SubSeq(text, 1, colon))
               \o SubSeq(text, colon + 1, Len(text))>>

\* the outcome of resolve_appinstaller_url
OkUrl(url) == [res |-> "Ok", url |-> url]
ErrRequest == [res |-> "Err", url |-> <<>>]

\* appinstaller.rs 34-56: the downloaded text turned into the result
ResolveContent(content) ==
    IF from_str(content) = <<>> THEN OkUrl(<<>>)
    ELSE IF get_installer_url(from_str(content)[1]) = <<>> THEN OkUrl(<<>>)
    ELSE OkUrl(parse_url(get_installer_url(from_str(content)[1])[1]))

Element(name, attributes) == [name |-> name, attributes |-> attributes]

\* a document and the URL its MainBundle, else its MainPackage, names
Document(well_formed, elements, expected) ==
    [well_formed |-> well_formed, elements |-> elements,
     expected |-> expected]

BUNDLE_URI == "https://example.com/App_2.0.5.0_x64.msixbundle"
PACKAGE_URI == "https://example.com/TestApp_1.0.0.0_x64.msix"

MainBundle(uri) ==
    Element("MainBundle", <<<<"Name", "App">>, <<"Uri", uri>>>>)
MainPackage(uri) ==
    Element("MainPackage", <<<<"Name", "TestApp">>, <<"Uri", uri>>>>)

\* the documents whose Uri attributes are absolute URLs
Documents ==
    { Document(TRUE, <<MainBundle(BUNDLE_URI)>>, <<BUNDLE_URI>>),
      Document(TRUE, <<MainPackage(PACKAGE_URI)>>, <<PACKAGE_URI>>),
      Document(TRUE, <<MainPackage(PACKAGE_URI), MainBundle(BUNDLE_URI)>>,
               <<BUNDLE_URI>>),
      Document(TRUE, <<MainBundle(BUNDLE_URI), MainPackage(PACKAGE_URI)>>,
               <<BUNDLE_URI>>),
      Document(TRUE, <<Element("UpdateSettings", <<>>),
                       MainPackage(PACKAGE_URI)>>, <<PACKAGE_URI>>),
      Document(TRUE, <<>>, <<>>),
      Document(TRUE, <<Element("Dependencies", <<<<"Uri", BUNDLE_URI>>>>)>>,
               <<>>) }

\* text that is not XML, elements without a Uri, a Uri that is not a URL
BrokenDocuments ==
    { Document(FALSE, <<>>, <<>>),
      Document(TRUE, <<Element("MainBundle", <<<<"Name", "App">>>>)>>, <<>>),
      Document(TRUE, <<MainBundle("App.msixbundle")>>, <<>>),
      Document(TRUE, <<MainBundle("App.msixbundle"),
                       MainPackage(PACKAGE_URI)>>, <<>>) }

\* URL paths, and whether each ends in .appinstaller
UrlPath(path, indirection) == [path |-> path, indirection |-> indirection]

UrlPaths ==
    { UrlPath("/releases/App.appinstaller", TRUE),
      UrlPath("/.appinstaller", TRUE),
      UrlPath("/releases/App.msixbundle", FALSE),
      UrlPath("/releases/App.appinstaller/", FALSE),
      UrlPath("/releases/App.appinstaller.bak", FALSE),
      UrlPath("/appinstaller", FALSE),
      UrlPath("/", FALSE) }

\* what the server answers: the document, an error status, no answer
Responses == {"success", "status", "unreachable"}

AppInstallerInputs ==
    { [appinstaller |-> TRUE, url |-> u, response |-> r, content |-> d] :
        u \in UrlPaths, r \in Responses,
        d \in Documents \cup BrokenDocuments }

IsAppInstallerInput(in) == "appinstaller" \in DOMAIN in

\* exe holds the number of requests sent and the outcome
InitAppInstaller ==
    /\ input \in AppInstallerInputs
    /\ pc = "Resolve"
    /\ pos = 0
    /\ invoked = <<>>
    /\ exe = [requests |-> 0, result |-> <<>>]
    /\ analysis = Running
    /\ stack = <<>>
    /\ variables = EmptyMap
    /\ ip = 1
    /\ MOCK_STRUCTS = EmptyMap
    /\ STORED_REGISTERS = <<>>
    /\ overflow_checks \in BOOLEAN

\* appinstaller.rs 19-22: a URL that is no .appinstaller is not resolved
ResolveAppInstallerUrl ==
    /\ pc = "Resolve"
    /\ IF ends_with(input.url.path, "." \o APPINSTALLER)
       THEN /\ pc' = "Download"
            /\ exe' = exe
       ELSE /\ pc' = "Done"
            /\ exe' = [exe EXCEPT !.result = <<OkUrl(<<>>)>>]
    /\ UNCHANGED <<input, pos, invoked, analysis, vm, statics, profile>>

\* appinstaller.rs 24-56: the request, its status, the text, the outcome
Download ==
    /\ pc = "Download"
    /\ pc' = "Done"
    /\ exe' = [requests |-> exe.requests + 1,
               result |-> << IF input.response = "success"
                             THEN ResolveContent(input.content)
                             ELSE ErrRequest >>]
    /\ UNCHANGED <<input, pos, invoked, analysis, vm, statics, profile>>

NextAppInstaller == ResolveAppInstallerUrl \/ Download

SpecAppInstaller == InitAppInstaller /\ [][NextAppInstaller]_vars

(***************************************************************************)
(* C28                                                                     *)
(***************************************************************************)
\* C28: an .appinstaller document (downloaded, its Uri attributes absolute
\* URLs) resolves to the Uri of its MainBundle element when one is present,
\* otherwise to the Uri of its MainPackage element, and to no URL when
\* neither is present; a URL whose path does not end in .appinstaller
\* resolves to no URL without any request being sent.
C28_ResolvesBundleThenPackage ==
    (IsAppInstallerInput(input) /\ pc = "Done")
    => /\ (input.url.indirection /\ input.response = "success"
           /\ input.content \in Documents)
          => (exe.result = <<OkUrl(input.content.expected)>>
              /\ exe.requests = 1)
       /\ ~input.url.indirection
          => (exe.result = <<OkUrl(<<>>)>> /\ exe.requests = 0)

\* a document with both elements, the package first, resolved to the bundle
C28_Witness ==
    /\ IsAppInstallerInput(input) /\ pc = "Done"
    /\ input.content.elements
         = <<MainPackage(PACKAGE_URI), MainBundle(BUNDLE_URI)>>
    /\ exe.requests = 1
    /\ exe.result = <<OkUrl(<<BUNDLE_URI>>)>>

\* a URL that is no .appinstaller: no request, no URL
C28_NotAnIndirection ==
    /\ IsAppInstallerInput(input) /\ pc = "Done"
    /\ input.url.path = "/releases/App.appinstaller.bak"
    /\ exe.requests = 0
    /\ exe.result = <<OkUrl(<<>>)>>

====
